---- MODULE Spec2Model ----
(***************************************************************************)
(* Model of the commitpaper note-indexing core: the link graph            *)
(* (services/linker.rs), the wikilink scanner (services/parser.rs) and    *)
(* the indexing commands (commands/vault.rs).                             *)
(*                                                                         *)
(* A Rust String is a sequence of one-character strings, so that          *)
(* Path::file_stem, format!("{}.md", ..) and the scanner are computed,    *)
(* not assumed.                                                            *)
(***************************************************************************)
EXTENDS Bags, FiniteSets, Integers, Naturals, Sequences, TLC

VARIABLES outgoing,      \* LinkGraph.outgoing: path -> Vec of raw targets
          name_to_path,  \* LinkGraph.name_to_path: name -> path
          last,          \* history: the last completed LinkGraph mutation
          pc,            \* per thread: the statement it is about to execute
          call,          \* per thread: the LinkGraph call it is executing
          out_readers,   \* the threads holding outgoing's read lock
          n2p_readers,   \* the threads holding name_to_path's read lock
          vault_path,    \* AppState.vault_path: Option<String>
          files,         \* the disk: full path -> the file's bytes
          docs,          \* the committed search index: path -> document
          ret,           \* what the last command did and returned
          input,         \* the text handed to parse_note
          note,          \* the ParsedNote it returned
          vault_lock,    \* the thread holding the vault_path mutex
          writer_lock,   \* the thread holding the search writer mutex
          to_index,      \* per thread: the entries index_vault has yet to visit
          writer_first,  \* the RwLocks make new readers wait for a waiting writer
          committed,     \* the documents of the committed search index
          staged,        \* the operations the IndexWriter has not committed
          started        \* per thread: the number of commands it has started

gvars == <<outgoing, name_to_path>>
cvars == <<pc, call, out_readers, n2p_readers>>
ivars == <<vault_path, files, docs, ret>>
pvars == <<input, note>>
lvars == <<vault_lock, writer_lock, to_index, writer_first, committed, staged,
          started>>
vars == <<outgoing, name_to_path, last, pc, call, out_readers, n2p_readers,
          vault_path, files, docs, ret, input, note,
          vault_lock, writer_lock, to_index, writer_first, committed, staged,
          started>>

(* ------------------------------ bounds -------------------------------- *)

\* longest target list handed to update_links
MaxTargets == 2
\* largest depth handed to get_local_graph
MaxDepth == 3

(* ------------------------------ strings ------------------------------- *)

\* Option::None for an Option<String>; no path or name is empty
None == <<>>

MD == <<".", "m", "d">>
A_MD == <<"a">> \o MD
B_MD == <<"b">> \o MD
X_A_MD == <<"x", "/", "a">> \o MD
C_MD == <<"c">> \o MD
R_MD == <<"r">> \o MD
N_MD == <<"n">> \o MD

\* index of the last occurrence of character c in s, 0 when there is none
RECURSIVE LastIndexOf(_, _)
LastIndexOf(s, c) ==
    IF s = <<>> THEN 0
    ELSE IF s[Len(s)] = c THEN Len(s)
    ELSE LastIndexOf(SubSeq(s, 1, Len(s) - 1), c)

\* Path::file_name for a relative forward-slash path: the last component
file_name(path) == SubSeq(path, LastIndexOf(path, "/") + 1, Len(path))

\* Path::new(path).file_stem().unwrap_or_default().to_string_lossy():
\* the file name up to its last '.', the whole name when it has no '.'
\* or only a leading one
file_stem(path) ==
    LET fname == file_name(path)
        dot == LastIndexOf(fname, ".")
    IN  IF dot <= 1 THEN fname ELSE SubSeq(fname, 1, dot - 1)

\* format!("{}.md", id)
synthetic_path(id) == id \o MD

(* ---------------------------- str methods ---------------------------- *)

\* char::is_whitespace, for the characters the model uses
WhiteSpace == {" ", "\n", "\t", "\r"}

Letters ==
    {"a", "b", "c", "d", "e", "f", "g", "h", "i", "j", "k", "l", "m", "n", "o",
     "p", "q", "r", "s", "t", "u", "v", "w", "x", "y", "z"}
Digits == {"0", "1", "2", "3", "4", "5", "6", "7", "8", "9"}

\* char::is_alphanumeric, for the characters the model uses
is_alphanumeric(c) == c \in Letters \cup Digits

\* str::trim_start_matches with a set of characters
RECURSIVE trim_start_matches(_, _)
trim_start_matches(s, C) ==
    IF s # <<>> /\ s[1] \in C THEN trim_start_matches(Tail(s), C) ELSE s

\* str::trim_end_matches with a set of characters
RECURSIVE trim_end_matches(_, _)
trim_end_matches(s, C) ==
    IF s # <<>> /\ s[Len(s)] \in C
    THEN trim_end_matches(SubSeq(s, 1, Len(s) - 1), C) ELSE s

\* str::trim_matches with one character
trim_matches(s, c) == trim_end_matches(trim_start_matches(s, {c}), {c})

\* str::trim_start, str::trim
trim_start(s) == trim_start_matches(s, WhiteSpace)
trim(s) == trim_end_matches(trim_start_matches(s, WhiteSpace), WhiteSpace)

\* str::starts_with
starts_with(s, pre) == Len(s) >= Len(pre) /\ SubSeq(s, 1, Len(pre)) = pre

\* str::find: the least index (from 1) at which pat occurs in s, 0 for None
find(s, pat) ==
    LET hits == {i \in 1..(Len(s) - Len(pat) + 1) :
                    SubSeq(s, i, i + Len(pat) - 1) = pat}
    IN  IF hits = {} THEN 0 ELSE CHOOSE i \in hits : \A j \in hits : i <= j

\* str::split with one character: the pieces between the separators
RECURSIVE split(_, _)
split(s, c) ==
    LET i == find(s, <<c>>)
    IN  IF i = 0 THEN <<s>>
        ELSE <<SubSeq(s, 1, i - 1)>> \o split(SubSeq(s, i + 1, Len(s)), c)

\* str::lines: split at '\n', no final empty line, a trailing '\r' dropped
lines(s) ==
    LET pieces == split(s, "\n")
        kept == IF pieces[Len(pieces)] = <<>>
                THEN SubSeq(pieces, 1, Len(pieces) - 1) ELSE pieces
    IN  [i \in 1..Len(kept) |->
            IF kept[i] # <<>> /\ kept[i][Len(kept[i])] = "\r"
            THEN SubSeq(kept[i], 1, Len(kept[i]) - 1) ELSE kept[i]]

\* str::split_whitespace: the maximal runs of non-whitespace characters
RECURSIVE split_whitespace(_)
split_whitespace(s) ==
    LET t == trim_start(s)
        ws == {i \in 1..Len(t) : t[i] \in WhiteSpace}
        e == IF ws = {} THEN Len(t) + 1 ELSE CHOOSE i \in ws : \A j \in ws : i <= j
    IN  IF t = <<>> THEN <<>>
        ELSE <<SubSeq(t, 1, e - 1)>> \o split_whitespace(SubSeq(t, e, Len(t)))

(* ------------------------------- parser ------------------------------- *)

\* extract_wikilinks, lines 43-53: the index of the first "]]" at or after j,
\* 0 when the input ends first
find_close(content, j) ==
    LET hits == {k \in j..(Len(content) - 1) :
                    content[k] = "]" /\ content[k + 1] = "]"}
    IN  IF hits = {} THEN 0 ELSE CHOOSE k \in hits : \A l \in hits : k <= l

\* a target taken without trimming
link_target_untrimmed(link) == split(link, "|")[1]

\* extract_wikilinks, lines 54-60: the target of the text between [[ and ]]
link_target(link) == trim(split(link, "|")[1])

\* extract_wikilinks, the scan from position i with the links found so far
RECURSIVE scan_wikilinks(_, _, _)
scan_wikilinks(content, i, links) ==
    IF i > Len(content) THEN links
    ELSE IF content[i] = "[" /\ i < Len(content) /\ content[i + 1] = "["
    THEN LET k == find_close(content, i + 2)
             link == SubSeq(content, i + 2, k - 1)
         IN  IF k = 0 THEN links
             ELSE scan_wikilinks(content, k + 2,
                      IF link # <<>> /\ link_target(link) # <<>>
                      THEN Append(links, link_target(link)) ELSE links)
    ELSE scan_wikilinks(content, i + 1, links)

\* parser::extract_wikilinks
extract_wikilinks(content) == scan_wikilinks(content, 1, <<>>)

DASHES == <<"-", "-", "-">>
CLOSING == <<"\n", "-", "-", "-">>

\* extract_frontmatter lines 72-78, extract_inline_tags lines 109-112: the text
\* after the opening "---" and the index in it of "\n---", 0 for None
after_start(content) == SubSeq(trim_start(content), 4, Len(trim_start(content)))
has_opening(content) == starts_with(trim_start(content), DASHES)
end_idx(content) == find(after_start(content), CLOSING)

\* extract_frontmatter lines 80-87: the trimmed "key: value" lines, as pairs
yaml_pairs(content) ==
    LET yaml == SubSeq(after_start(content), 1, end_idx(content) - 1)
        ls == [i \in DOMAIN lines(yaml) |-> trim(lines(yaml)[i])]
        kept == SelectSeq(ls, LAMBDA l :
                    l # <<>> /\ l[1] # "#" /\ find(l, <<":">>) # 0)
    IN  IF ~has_opening(content) \/ end_idx(content) = 0 THEN <<>>
        ELSE [i \in DOMAIN kept |->
                 LET c == find(kept[i], <<":">>)
                 IN  <<trim(SubSeq(kept[i], 1, c - 1)),
                       trim(SubSeq(kept[i], c + 1, Len(kept[i])))>>]

TAGS_KEY == <<"t", "a", "g", "s">>
TITLE_KEY == <<"t", "i", "t", "l", "e">>

\* a tags value whose elements keep their quotes
tags_of_value_quoted(value) ==
    LET tag_str == trim_end_matches(trim_start_matches(value, {"["}), {"]"})
        parts == split(tag_str, ",")
        clean == [i \in DOMAIN parts |-> trim(parts[i])]
    IN  SelectSeq(clean, LAMBDA t : t # <<>>)

\* extract_frontmatter lines 91-97: the tags of one tags value
tags_of_value(value) ==
    LET tag_str == trim_end_matches(trim_start_matches(value, {"["}), {"]"})
        parts == split(tag_str, ",")
        clean == [i \in DOMAIN parts |->
                     trim_matches(trim_matches(trim(parts[i]), "\""), "'")]
    IN  SelectSeq(clean, LAMBDA t : t # <<>>)

\* extract_frontmatter: the tags pushed, in order, by its tags lines
RECURSIVE frontmatter_tags_of(_)
frontmatter_tags_of(pairs) ==
    IF pairs = <<>> THEN <<>>
    ELSE (IF pairs[1][1] = TAGS_KEY THEN tags_of_value(pairs[1][2]) ELSE <<>>)
             \o frontmatter_tags_of(Tail(pairs))

\* extract_frontmatter: the map filled by frontmatter.insert, a later line
\* replacing an earlier one with the same key
RECURSIVE frontmatter_of(_)
frontmatter_of(pairs) ==
    IF pairs = <<>> THEN [x \in {} |-> <<>>]
    ELSE LET front == frontmatter_of(SubSeq(pairs, 1, Len(pairs) - 1))
             kv == pairs[Len(pairs)]
         IN  IF kv[1] = TAGS_KEY THEN front
             ELSE [x \in DOMAIN front \cup {kv[1]} |->
                      IF x = kv[1] THEN kv[2] ELSE front[x]]

\* a scan for #tags that never skips the front-matter
inline_body_whole(content) == content

\* extract_inline_tags lines 109-119: the text scanned for #tags
inline_body(content) ==
    IF has_opening(content) /\ end_idx(content) # 0
    THEN SubSeq(after_start(content), end_idx(content) + 4,
                Len(after_start(content)))
    ELSE content

\* a tag that keeps the trailing punctuation of its word
tag_of_word_unstripped(word) == trim_start_matches(word, {"#"})

\* extract_inline_tags lines 123-126: the tag of a word
tag_of_word(word) ==
    LET t == trim_start_matches(word, {"#"})
        keep == {i \in 1..Len(t) :
                    is_alphanumeric(t[i]) \/ t[i] \in {"-", "_", "/"}}
    IN  IF keep = {} THEN <<>>
        ELSE SubSeq(t, 1, CHOOSE i \in keep : \A j \in keep : j <= i)

\* extract_inline_tags lines 121-131: the words pushed onto tags
RECURSIVE push_inline_tags(_, _)
push_inline_tags(words, tags) ==
    IF words = <<>> THEN tags
    ELSE LET word == Head(words)
             tag == tag_of_word(word)
         IN  push_inline_tags(Tail(words),
                 IF word[1] = "#" /\ Len(word) > 1 /\ tag # <<>>
                    /\ tag \notin {tags[i] : i \in DOMAIN tags}
                 THEN Append(tags, tag) ELSE tags)

\* parser::parse_note
parse_note(content) ==
    [links |-> extract_wikilinks(content),
     tags |-> push_inline_tags(split_whitespace(inline_body(content)),
                               frontmatter_tags_of(yaml_pairs(content))),
     frontmatter |-> frontmatter_of(yaml_pairs(content))]

(* ------------------------------ HashMap ------------------------------- *)

\* HashMap::insert(k, v)
map_insert(m, k, v) == [x \in DOMAIN m \cup {k} |-> IF x = k THEN v ELSE m[x]]

\* HashMap::remove(k)
map_remove(m, k) == [x \in DOMAIN m \ {k} |-> m[x]]

\* the orders in which iter() may enumerate a HashMap or HashSet with keys S
Orders(S) ==
    {f \in [1..Cardinality(S) -> S] : \A i, j \in DOMAIN f : i # j => f[i] # f[j]}

\* the elements of a Vec
Range(s) == {s[i] : i \in DOMAIN s}

(* ----------------------------- LinkGraph ------------------------------ *)

\* LinkGraph::new
new_outgoing == [x \in {} |-> <<>>]
new_name_to_path == [x \in {} |-> <<>>]

\* a register_note that keeps the extension in the name
register_note_by_file_name(n2p, path) == map_insert(n2p, file_name(path), path)

\* a register_note that keeps the path a name already has
register_note_keep_first(n2p, path) ==
    IF file_stem(path) \in DOMAIN n2p THEN n2p
    ELSE map_insert(n2p, file_stem(path), path)

\* LinkGraph::register_note, the new name_to_path
register_note(n2p, path) == map_insert(n2p, file_stem(path), path)

\* an update_links that appends to the stored list
update_links_merge(out, source_path, link_targets) ==
    map_insert(out, source_path,
               (IF source_path \in DOMAIN out THEN out[source_path] ELSE <<>>)
                   \o link_targets)

\* LinkGraph::update_links, the new outgoing
update_links(out, source_path, link_targets) ==
    map_insert(out, source_path, link_targets)

\* a remove_note that drops the entries of every path with the note's name
remove_note_outgoing_by_name(out, path) ==
    [x \in {y \in DOMAIN out : file_stem(y) # file_stem(path)} |-> out[x]]

\* LinkGraph::remove_note, first statement: the new outgoing
remove_note_outgoing(out, path) == map_remove(out, path)

\* a remove_note that keeps a name held by another path
remove_note_name_if_same(n2p, path) ==
    IF file_stem(path) \in DOMAIN n2p /\ n2p[file_stem(path)] = path
    THEN map_remove(n2p, file_stem(path)) ELSE n2p

\* LinkGraph::remove_note, last statement: the new name_to_path
remove_note_name(n2p, path) == map_remove(n2p, file_stem(path))

\* LinkGraph::resolve_link: Option<String>
resolve_link(n2p, name) == IF name \in DOMAIN n2p THEN n2p[name] ELSE None

\* LinkGraph::get_all_note_names: the keys in iteration order ord
get_all_note_names(n2p, ord) == ord

\* a get_backlinks that matches the name only
get_backlinks_name_only(out, path, ord) ==
    SelectSeq(ord, LAMBDA source :
        \E i \in DOMAIN out[source] : out[source][i] = file_stem(path))

\* LinkGraph::get_backlinks: outgoing is iterated in order ord
get_backlinks(out, path, ord) ==
    LET name == file_stem(path)
    IN  SelectSeq(ord, LAMBDA source :
            \E i \in DOMAIN out[source] :
                out[source][i] = name \/ out[source][i] = path)


(* ------------------------- ordering of strings ------------------------ *)

\* the byte value of each character the model uses
CharCode ==
    ("." :> 46) @@ ("/" :> 47) @@ ("a" :> 97) @@ ("b" :> 98) @@ ("c" :> 99) @@
    ("d" :> 100) @@ ("m" :> 109) @@ ("n" :> 110) @@ ("q" :> 113) @@
    ("r" :> 114) @@ ("x" :> 120)

\* String's Ord: s < t, byte-wise lexicographic
RECURSIVE StrLess(_, _)
StrLess(s, t) ==
    IF t = <<>> THEN FALSE
    ELSE IF s = <<>> THEN TRUE
    ELSE IF s[1] = t[1] THEN StrLess(Tail(s), Tail(t))
    ELSE CharCode[s[1]] < CharCode[t[1]]

\* (&a.source, &a.target).cmp(&(&b.source, &b.target)) is not Greater
EdgeLeq(a, b) ==
    \/ StrLess(a.source, b.source)
    \/ a.source = b.source /\ ~StrLess(b.target, a.target)

\* insert e into the sorted es after every element that is not greater
RECURSIVE SortedInsert(_, _)
SortedInsert(es, e) ==
    IF es = <<>> THEN <<e>>
    ELSE IF EdgeLeq(es[Len(es)], e) THEN Append(es, e)
    ELSE Append(SortedInsert(SubSeq(es, 1, Len(es) - 1), e), es[Len(es)])

\* edges.sort_by(..): a stable sort
RECURSIVE sort_edges(_)
sort_edges(es) ==
    IF es = <<>> THEN <<>>
    ELSE SortedInsert(sort_edges(SubSeq(es, 1, Len(es) - 1)), es[Len(es)])

\* a dedup_by that drops nothing
dedup_edges_kept(es) == es

\* edges.dedup_by(..): drops an element equal to the one kept before it
RECURSIVE dedup_edges(_)
dedup_edges(es) ==
    IF Len(es) <= 1 THEN es
    ELSE LET front == dedup_edges(SubSeq(es, 1, Len(es) - 1))
         IN  IF front[Len(front)] = es[Len(es)] THEN front
             ELSE Append(front, es[Len(es)])

(* ------------------------ LinkGraph: graph data ----------------------- *)

\* GraphEdge values source_name -> t for each t of targets, in order
edges_from(source_name, targets) ==
    [i \in 1..Len(targets) |-> [source |-> source_name, target |-> targets[i]]]

\* the number of edges of es that point to id
count_target(es, id) == Cardinality({i \in DOMAIN es : es[i].target = id})

\* GraphNode for id: the registered path or the synthetic one
graph_node(n2p, id, count) ==
    [id |-> id, label |-> id,
     path |-> IF id \in DOMAIN n2p THEN n2p[id] ELSE synthetic_path(id),
     backlink_count |-> count]

\* get_graph_data, lines 122-135: the flattened edges, outgoing iterated as ord
RECURSIVE graph_edges(_, _)
graph_edges(out, ord) ==
    IF ord = <<>> THEN <<>>
    ELSE edges_from(file_stem(Head(ord)), out[Head(ord)])
             \o graph_edges(out, Tail(ord))

\* get_graph_data, lines 89-104: node_ids
graph_node_ids(out) ==
    {file_stem(s) : s \in DOMAIN out}
        \cup UNION {Range(out[s]) : s \in DOMAIN out}

\* the number of entries of targets equal to id
occurrences(targets, id) == Cardinality({i \in DOMAIN targets : targets[i] = id})

\* a backlink count of linking notes instead of links
graph_backlink_count_notes(out, ord, id) ==
    Cardinality({i \in DOMAIN ord : id \in Range(out[ord[i]])})

\* get_graph_data, lines 90-104: backlink_counts[id], one per target occurrence
RECURSIVE graph_backlink_count(_, _, _)
graph_backlink_count(out, ord, id) ==
    IF ord = <<>> THEN 0
    ELSE occurrences(out[Head(ord)], id) + graph_backlink_count(out, Tail(ord), id)

\* LinkGraph::get_graph_data. The nodes Vec is collected from a HashSet, whose
\* iteration order is unspecified: it is the bag of its elements.
get_graph_data(out, n2p, ord) ==
    [nodes |-> SetToBag({graph_node(n2p, id, graph_backlink_count(out, ord, id)) :
                             id \in graph_node_ids(out)}),
     edges |-> graph_edges(out, ord)]

(* ----------------------- LinkGraph: local graph ----------------------- *)

\* lines 162-174: the targets of name's registered path
local_targets(out, n2p, name) ==
    IF name \in DOMAIN n2p /\ n2p[name] \in DOMAIN out
    THEN out[n2p[name]] ELSE <<>>

\* lines 177-183: the sources whose targets contain name, in iteration order
local_sources(out, name, ord) ==
    SelectSeq(ord, LAMBDA s : name \in Range(out[s]))

\* lines 155-193: the while loop; to_visit is a stack, popped from its end
RECURSIVE local_loop(_, _, _, _, _, _, _)
local_loop(out, n2p, depth, ord, visited, to_visit, edges) ==
    IF to_visit = <<>> THEN [visited |-> visited, edges |-> edges]
    ELSE
      LET name == to_visit[Len(to_visit)][1]
          d == to_visit[Len(to_visit)][2]
          rest == SubSeq(to_visit, 1, Len(to_visit) - 1)
      IN  IF name \in visited \/ d > depth
          THEN local_loop(out, n2p, depth, ord, visited, rest, edges)
          ELSE
            LET visited2 == visited \cup {name}
                targets == local_targets(out, n2p, name)
                sources == local_sources(out, name, ord)
                push_out == IF d < depth
                            THEN [i \in 1..Len(targets) |-> <<targets[i], d + 1>>]
                            ELSE <<>>
                fresh == SelectSeq(sources,
                                   LAMBDA s : file_stem(s) \notin visited2)
                push_in == IF d < depth
                           THEN [i \in 1..Len(fresh) |->
                                     <<file_stem(fresh[i]), d + 1>>]
                           ELSE <<>>
                edges_in == [i \in 1..Len(sources) |->
                                [source |-> file_stem(sources[i]), target |-> name]]
            IN  local_loop(out, n2p, depth, ord, visited2,
                           rest \o push_out \o push_in,
                           edges \o edges_from(name, targets) \o edges_in)

\* LinkGraph::get_local_graph; outgoing is iterated as ord. backlink_counts is
\* taken from the edges before they are sorted and deduplicated.
get_local_graph(out, n2p, path, depth, ord) ==
    LET t == local_loop(out, n2p, depth, ord, {}, <<<<file_stem(path), 0>>>>, <<>>)
    IN  [nodes |-> SetToBag({graph_node(n2p, id, count_target(t.edges, id)) :
                                 id \in t.visited}),
         edges |-> dedup_edges(sort_edges(t.edges))]

\* the ids of the nodes of a GraphData
NodeIds(g) == {n.id : n \in BagToSet(g.nodes)}

(* -------------------- the link graph, called in turn ------------------ *)

\* the paths and raw targets the calls are made with
Paths == {A_MD, B_MD, X_A_MD}
Targets == {<<"b">>, B_MD}

\* the target lists of at most MaxTargets entries over T
TargetLists(T) == UNION {[1..n -> T] : n \in 0..MaxTargets}

NoCall == [op |-> "new", path |-> None, targets |-> <<>>]

\* no command has run
NoCommand == [cmd |-> "none", path |-> None, ok |-> TRUE,
              parsed |-> {}, upsert_failed |-> {}]

\* parse_note has not been called
NoNote == [done |-> FALSE, links |-> <<>>, tags |-> <<>>,
           frontmatter |-> [x \in {} |-> <<>>]]

\* no thread holds the mutex
Free == "free"

\* the threads of the pool that run the handlers
Threads == {"t1", "t2"}

\* a thread that has not entered an operation; removed is what the thread's
\* HashMap::remove on outgoing returned: whether there was an entry
NoThreadCall == [op |-> "none", path |-> None, targets |-> <<>>, removed |-> FALSE]

Init ==
    /\ outgoing = new_outgoing
    /\ name_to_path = new_name_to_path
    /\ last = NoCall
    /\ pc = [t \in Threads |-> "idle"]
    /\ call = [t \in Threads |-> NoThreadCall]
    /\ out_readers = {}
    /\ n2p_readers = {}
    /\ vault_path = None
    /\ files = [x \in {} |-> <<>>]
    /\ docs = [x \in {} |-> <<>>]
    /\ ret = NoCommand
    /\ input = <<>>
    /\ note = NoNote
    /\ vault_lock = Free
    /\ writer_lock = Free
    /\ to_index = [t \in Threads |-> <<>>]
    /\ writer_first = FALSE
    /\ committed = <<>>
    /\ staged = <<>>
    /\ started = [t \in Threads |-> 0]

RegisterNote(p) ==
    /\ name_to_path' = register_note(name_to_path, p)
    /\ UNCHANGED <<outgoing, cvars, ivars, pvars, lvars>>
    /\ last' = [op |-> "register_note", path |-> p, targets |-> <<>>]

UpdateLinks(p, T) ==
    /\ outgoing' = update_links(outgoing, p, T)
    /\ UNCHANGED <<name_to_path, cvars, ivars, pvars, lvars>>
    /\ last' = [op |-> "update_links", path |-> p, targets |-> T]

RemoveNote(p) ==
    /\ outgoing' = remove_note_outgoing(outgoing, p)
    /\ name_to_path' = remove_note_name(name_to_path, p)
    /\ last' = [op |-> "remove_note", path |-> p, targets |-> <<>>]
    /\ UNCHANGED <<cvars, ivars, pvars, lvars>>

Next ==
    \/ \E p \in Paths : RegisterNote(p)
    \/ \E p \in Paths, T \in TargetLists(Targets) : UpdateLinks(p, T)
    \/ \E p \in Paths : RemoveNote(p)

Spec == Init /\ [][Next]_vars


(* ------------- the link graph of a vault of linked notes -------------- *)

\* three notes with distinct names that link to two notes not yet written
LocalPaths == {C_MD, R_MD, N_MD}
LocalTargets == {<<"m">>, <<"q">>}

NextLocal ==
    \/ \E p \in LocalPaths : RegisterNote(p)
    \/ \E p \in LocalPaths, T \in TargetLists(LocalTargets) : UpdateLinks(p, T)
    \/ \E p \in LocalPaths : RemoveNote(p)

SpecLocal == Init /\ [][NextLocal]_vars

(* --------------- the link graph, called by several threads ------------ *)

\* the calls the threads make
ConcPaths == {A_MD, X_A_MD}
ConcLists == {<<>>, << <<"b">> >>}
Mutations == {"register_note", "update_links", "remove_note"}
SingleLockReads == {"get_backlinks", "get_all_note_names", "resolve_link"}
TwoLockReads == {"get_graph_data", "get_local_graph"}

\* the first statement of each operation
Entry(op) ==
    CASE op = "register_note" -> "register_insert"
      [] op = "update_links" -> "update_insert"
      [] op = "remove_note" -> "remove_outgoing"
      [] op \in SingleLockReads -> "read_one"
      [] op \in TwoLockReads -> "read_outgoing"

\* a handler thread enters a LinkGraph operation
Call(t, op, p, T) ==
    /\ pc[t] = "idle"
    /\ pc' = [pc EXCEPT ![t] = Entry(op)]
    /\ call' = [call EXCEPT ![t] = [op |-> op, path |-> p, targets |-> T,
                                    removed |-> FALSE]]
    /\ UNCHANGED <<ivars, pvars, lvars, gvars, last, out_readers, n2p_readers>>

\* register_note, lines 30-33: name_to_path.write() for one statement
RegisterInsert(t) ==
    /\ pc[t] = "register_insert"
    /\ n2p_readers = {}
    /\ name_to_path' = register_note(name_to_path, call[t].path)
    /\ pc' = [pc EXCEPT ![t] = "idle"]
    /\ UNCHANGED <<ivars, pvars, lvars, outgoing, last, call, out_readers, n2p_readers>>

\* update_links, lines 38-41: outgoing.write() for one statement
UpdateInsert(t) ==
    /\ pc[t] = "update_insert"
    /\ out_readers = {}
    /\ outgoing' = update_links(outgoing, call[t].path, call[t].targets)
    /\ pc' = [pc EXCEPT ![t] = "idle"]
    /\ UNCHANGED <<ivars, pvars, lvars, name_to_path, last, call, out_readers, n2p_readers>>

\* remove_note, line 46: outgoing.write() is released at the end of the statement
RemoveOutgoing(t) ==
    /\ pc[t] = "remove_outgoing"
    /\ out_readers = {}
    /\ outgoing' = remove_note_outgoing(outgoing, call[t].path)
    /\ call' = [call EXCEPT ![t].removed = call[t].path \in DOMAIN outgoing]
    /\ pc' = [pc EXCEPT ![t] = "remove_name"]
    /\ UNCHANGED <<ivars, pvars, lvars, name_to_path, last, out_readers, n2p_readers>>

\* remove_note, line 52: name_to_path.write() is taken afterwards
RemoveName(t) ==
    /\ pc[t] = "remove_name"
    /\ n2p_readers = {}
    /\ name_to_path' = remove_note_name(name_to_path, call[t].path)
    /\ pc' = [pc EXCEPT ![t] = "idle"]
    /\ UNCHANGED <<ivars, pvars, lvars, outgoing, last, call, out_readers, n2p_readers>>

\* get_backlinks, get_all_note_names, resolve_link: one read lock, held from
\* its acquisition to the return; no writer holds a lock across statements
ReadOne(t) ==
    /\ pc[t] = "read_one"
    /\ pc' = [pc EXCEPT ![t] = "idle"]
    /\ UNCHANGED <<ivars, pvars, lvars, gvars, last, call, out_readers, n2p_readers>>

\* get_graph_data line 85, get_local_graph line 148: outgoing.read()
ReadOutgoing(t) ==
    /\ pc[t] = "read_outgoing"
    /\ out_readers' = out_readers \cup {t}
    /\ pc' = [pc EXCEPT ![t] = "read_names"]
    /\ UNCHANGED <<ivars, pvars, lvars, gvars, last, call, n2p_readers>>

\* get_graph_data line 86, get_local_graph line 149: name_to_path.read()
ReadNames(t) ==
    /\ pc[t] = "read_names"
    /\ n2p_readers' = n2p_readers \cup {t}
    /\ pc' = [pc EXCEPT ![t] = "build"]
    /\ UNCHANGED <<ivars, pvars, lvars, gvars, last, call, out_readers>>

\* get_graph_data lines 88-137, get_local_graph lines 151-220: the result is
\* built from the two maps under both read locks, which the return releases
Build(t) ==
    /\ pc[t] = "build"
    /\ out_readers' = out_readers \ {t}
    /\ n2p_readers' = n2p_readers \ {t}
    /\ pc' = [pc EXCEPT ![t] = "idle"]
    /\ UNCHANGED <<ivars, pvars, lvars, gvars, last, call>>

NextConc ==
    \/ \E t \in Threads, op \in Mutations \cup SingleLockReads \cup TwoLockReads,
          p \in ConcPaths, T \in ConcLists :
         /\ (op # "update_links" => T = <<>>)
         /\ (op \in {"get_all_note_names", "get_graph_data"} => p = A_MD)
         /\ Call(t, op, p, T)
    \/ \E t \in Threads : RegisterInsert(t)
    \/ \E t \in Threads : UpdateInsert(t)
    \/ \E t \in Threads : RemoveOutgoing(t)
    \/ \E t \in Threads : RemoveName(t)
    \/ \E t \in Threads : ReadOne(t)
    \/ \E t \in Threads : ReadOutgoing(t)
    \/ \E t \in Threads : ReadNames(t)
    \/ \E t \in Threads : Build(t)

SpecConc == Init /\ [][NextConc]_vars

(* ------------------------- the vault commands ------------------------- *)

\* the directories that exist on disk and one that does not
ROOT == <<"v">>
SECOND == <<"u">>
MISSING == <<"w">>
Dirs == {ROOT, SECOND}

\* the notes written to the vault and the texts written to them
NoteFiles == {A_MD, B_MD}
T_B == <<"[", "[", "b", "]", "]">>
T_AB == <<"[", "[", "a", "]", "]", " ", "#", "t", " ",
          "[", "[", "b", "|", "x", "]", "]">>
Contents == {T_B, T_AB}

\* a file of the disk: its text, or bytes that are not UTF-8
TextFile(content) == [utf8 |-> TRUE, text |-> content]
BinaryFile == [utf8 |-> FALSE, text |-> <<>>]

\* Path::new(base).join(rel), rel relative
join(base, rel) == base \o <<"/">> \o rel

\* path.strip_prefix(vault_path).unwrap_or(path).to_string_lossy()
\*     .replace('\\', "/")
rel_path_of(path, base) ==
    LET rel == IF starts_with(path, base \o <<"/">>)
               THEN SubSeq(path, Len(base) + 2, Len(path)) ELSE path
    IN  [i \in 1..Len(rel) |-> IF rel[i] = "\\" THEN "/" ELSE rel[i]]

\* Path::extension().unwrap_or_default(): the file name after its last '.',
\* nothing when it has no '.' or only a leading one
extension(path) ==
    LET fname == file_name(path)
        dot == LastIndexOf(fname, ".")
    IN  IF dot <= 1 THEN <<>> ELSE SubSeq(fname, dot + 1, Len(fname))

GIT_DIR == <<".", "g", "i", "t">>
MARKDOWN == <<"m", "a", "r", "k", "d", "o", "w", "n">>

\* index_vault lines 129-138: the entry is not under .git, is a file and has
\* the extension md or markdown
eligible(path) ==
    /\ GIT_DIR \notin Range(split(path, "/"))
    /\ path \in DOMAIN files
    /\ extension(path) \in {<<"m", "d">>, MARKDOWN}

\* a read that accepts any bytes (a lossy conversion)
readable_lossy(path) == path \in DOMAIN files

\* fs::read_to_string(path) is Ok
readable(path) == path \in DOMAIN files /\ files[path].utf8

\* reindex_file lines 95-105, index_vault lines 147-156: the title
title_of(parsed, path) ==
    IF TITLE_KEY \in DOMAIN parsed.frontmatter
    THEN parsed.frontmatter[TITLE_KEY] ELSE file_stem(path)

\* tags.join(" ")
RECURSIVE join_tags(_)
join_tags(tags) ==
    IF tags = <<>> THEN <<>>
    ELSE IF Len(tags) = 1 THEN tags[1]
    ELSE tags[1] \o <<" ">> \o join_tags(Tail(tags))

\* SearchIndex::index_note that commits: the document of path is replaced.
\* docs is the committed index; a call that returns Err has committed nothing
\* and leaves docs as it is (what it staged in the writer is not modelled).
index_note(index, path, title, body, tags) ==
    map_insert(index, path,
               [title |-> title, body |-> body, tags |-> join_tags(tags)])

\* an index_vault that gives up on a note when its search upsert fails
index_parsed_skip_on_error(g, rel, full_path, content, parsed, failed) ==
    IF rel \in failed THEN g
    ELSE [outgoing |-> update_links(g.outgoing, rel, parsed.links),
          name_to_path |-> register_note(g.name_to_path, rel),
          docs |-> index_note(g.docs, rel, title_of(parsed, full_path),
                              content, parsed.tags)]

\* index_vault lines 147-164: the three updates for the note rel once its
\* content is read and parsed; failed holds the paths whose index_note
\* returns Err, which `let _ =` discards
index_parsed(g, rel, full_path, content, parsed, failed) ==
    [outgoing |-> update_links(g.outgoing, rel, parsed.links),
     name_to_path |-> register_note(g.name_to_path, rel),
     docs |-> IF rel \in failed THEN g.docs
              ELSE index_note(g.docs, rel, title_of(parsed, full_path),
                              content, parsed.tags)]

\* index_vault lines 129-165 for one entry of the walk, on the state
\* g = [outgoing, name_to_path, docs]
index_entry(g, root, path, failed) ==
    IF ~(eligible(path) /\ readable(path)) THEN g
    ELSE index_parsed(g, rel_path_of(path, root), path, files[path].text,
                      parse_note(files[path].text), failed)

\* an index_vault that starts from an empty link graph
RECURSIVE index_vault_fresh(_, _, _, _)
index_vault_fresh(g, root, walk, failed) ==
    IF walk = <<>>
    THEN [outgoing |-> new_outgoing, name_to_path |-> new_name_to_path,
          docs |-> g.docs]
    ELSE index_entry(index_vault_fresh(g, root, SubSeq(walk, 1, Len(walk) - 1),
                                       failed),
                     root, walk[Len(walk)], failed)

\* index_vault: the entries of WalkDir::new(vault_path) in the order walk
RECURSIVE index_vault(_, _, _, _)
index_vault(g, root, walk, failed) ==
    IF walk = <<>> THEN g
    ELSE index_vault(index_entry(g, root, Head(walk), failed),
                     root, Tail(walk), failed)

\* the files WalkDir::new(root) yields
Walked(root) == {f \in DOMAIN files : starts_with(f, root \o <<"/">>)}

\* commands::vault::open_vault
OpenVault(path, walk, failed) ==
    /\ IF path \notin Dirs
       THEN /\ ret' = [cmd |-> "open_vault", path |-> path, ok |-> FALSE,
                       parsed |-> {}, upsert_failed |-> {}]
            /\ UNCHANGED <<gvars, vault_path, docs>>
       ELSE LET g == index_vault([outgoing |-> outgoing,
                                  name_to_path |-> name_to_path,
                                  docs |-> docs], path, walk, failed)
                parsed == {rel_path_of(f, path) :
                              f \in {x \in Walked(path) :
                                        eligible(x) /\ readable(x)}}
            IN  /\ vault_path' = path
                /\ outgoing' = g.outgoing
                /\ name_to_path' = g.name_to_path
                /\ docs' = g.docs
                /\ ret' = [cmd |-> "open_vault", path |-> path, ok |-> TRUE,
                           parsed |-> parsed,
                           upsert_failed |-> failed \cap parsed]
    /\ UNCHANGED <<files, last, cvars, pvars, lvars>>

\* reindex_file lines 95-115 when index_note returns Ok
reindex_parsed(path, content, parsed) ==
    /\ docs' = index_note(docs, path, title_of(parsed, path), content,
                          parsed.tags)
    /\ name_to_path' = register_note(name_to_path, path)
    /\ outgoing' = update_links(outgoing, path, parsed.links)

\* commands::vault::reindex_file; upsert_ok: index_note returns Ok
ReindexFile(path, upsert_ok) ==
    LET full_path == join(vault_path, path)
        result(ok, read, failed) ==
            [cmd |-> "reindex_file", path |-> path, ok |-> ok,
             parsed |-> read, upsert_failed |-> failed]
    IN  /\ IF vault_path = None \/ ~readable(full_path)
           THEN /\ ret' = result(FALSE, {}, {})
                /\ UNCHANGED <<gvars, docs>>
           ELSE IF ~upsert_ok
           THEN /\ ret' = result(FALSE, {path}, {path})
                /\ UNCHANGED <<gvars, docs>>
           ELSE /\ reindex_parsed(path, files[full_path].text,
                                  parse_note(files[full_path].text))
                /\ ret' = result(TRUE, {path}, {})
        /\ UNCHANGED <<vault_path, files, last, cvars, pvars, lvars>>

\* commands::files::write_file and save_binary_file: data replaces the file
WriteFile(path, data) ==
    /\ IF vault_path = None
       THEN /\ ret' = [cmd |-> "write_file", path |-> path, ok |-> FALSE,
                       parsed |-> {}, upsert_failed |-> {}]
            /\ UNCHANGED files
       ELSE /\ files' = map_insert(files, join(vault_path, path), data)
            /\ ret' = [cmd |-> "write_file", path |-> path, ok |-> TRUE,
                       parsed |-> {}, upsert_failed |-> {}]
    /\ UNCHANGED <<gvars, vault_path, docs, last, cvars, pvars, lvars>>

NextIdx ==
    \/ \E path \in {ROOT, MISSING}, failed \in SUBSET NoteFiles :
         \E walk \in Orders(Walked(path)) : OpenVault(path, walk, failed)
    \/ \E path \in NoteFiles, upsert_ok \in BOOLEAN : ReindexFile(path, upsert_ok)
    \/ \E path \in NoteFiles, data \in {TextFile(c) : c \in Contents} \cup {BinaryFile} :
         WriteFile(path, data)

SpecIdx == Init /\ [][NextIdx]_vars

(* ------------------- the full index of a given disk ------------------- *)

\* the most files the vault holds when the application starts
MaxFiles == 3

\* entries of the vault: a note, a note in a folder, a hidden note, a note
\* under .git, a text file and a note with the long extension
H_MD == <<".", "h">> \o MD
GIT_C_MD == GIT_DIR \o <<"/", "c">> \o MD
N_TXT == <<"n", ".", "t", "x", "t">>
D_MARKDOWN == <<"d", ".">> \o MARKDOWN
ScanFiles == {A_MD, X_A_MD, H_MD, GIT_C_MD, N_TXT, D_MARKDOWN}

\* the disks the application can start on: at most MaxFiles of the entries
\* under ROOT, each a text or bytes that are not UTF-8
Disks ==
    UNION {[{join(ROOT, f) : f \in S} -> {TextFile(T_B), BinaryFile}] :
              S \in {S \in SUBSET ScanFiles : Cardinality(S) <= MaxFiles}}

InitScan ==
    /\ outgoing = new_outgoing
    /\ name_to_path = new_name_to_path
    /\ last = NoCall
    /\ pc = [t \in Threads |-> "idle"]
    /\ call = [t \in Threads |-> NoThreadCall]
    /\ out_readers = {}
    /\ n2p_readers = {}
    /\ vault_path = None
    /\ files \in Disks
    /\ docs = [x \in {} |-> <<>>]
    /\ ret = NoCommand
    /\ input = <<>>
    /\ note = NoNote
    /\ vault_lock = Free
    /\ writer_lock = Free
    /\ to_index = [t \in Threads |-> <<>>]
    /\ writer_first = FALSE
    /\ committed = <<>>
    /\ staged = <<>>
    /\ started = [t \in Threads |-> 0]

\* the vault-relative paths of the files the last open_vault walked
WalkedRel(root) == {rel_path_of(f, root) : f \in Walked(root)}

NextScan ==
    \E path \in {ROOT, MISSING} :
        \E walk \in Orders(Walked(path)), failed \in SUBSET WalkedRel(path) :
            OpenVault(path, walk, failed)

SpecScan == InitScan /\ [][NextScan]_vars

(* --------------------------- parsing a text --------------------------- *)

\* the most front-matter lines, body words and characters of a text
MaxLines == 2
MaxWords == 2
MaxLen == 5

\* the concatenation of the texts of ts, each followed by sep
RECURSIVE concat(_, _)
concat(ts, sep) ==
    IF ts = <<>> THEN <<>> ELSE Head(ts) \o sep \o concat(Tail(ts), sep)

\* the sequences of at most n elements of S
SeqsUpTo(S, n) == UNION {[1..k -> S] : k \in 0..n}

\* what a note starts with: nothing, the opening delimiter, the opening
\* delimiter after leading whitespace
Heads ==
    {<<>>,
     <<"-", "-", "-", "\n">>,
     <<"\n", " ", "-", "-", "-", "\n">>}

\* lines of a front-matter block
FmLines ==
    {<<"t", "a", "g", "s", ":", " ", "[", "a", ",", ",", " ", "\"", "b", "\"", "]">>,
     <<"t", "a", "g", "s", ":", " ", "a", ",", " ", "'", "a", "'">>,
     <<" ", "t", " ", ":", " ", "u", ":", " ", "v", " ">>,
     <<"#", "x">>,
     <<"t", ":", " ", "w">>}

\* what follows the lines: nothing, the closing delimiter, a line that
\* begins with the delimiter
Closers ==
    {<<>>,
     <<"-", "-", "-", "\n">>,
     <<"-", "-", "-", "#", "a", "\n">>}

\* whitespace-delimited words of a body
BodyWords ==
    {<<"#", "a">>,
     <<"#", "b", "-", "c", "!">>,
     <<"#", "!">>,
     <<"#">>,
     <<"#", "#", "a">>,
     <<"[", "[", "a", "]", "]">>,
     <<"[", "[", " ", "a", "|", "b", "]", "]">>}

\* notes: a head, lines, a closer and a body of words
NoteTexts ==
    {h \o concat(ls, <<"\n">>) \o c \o concat(ws, <<" ">>) :
        h \in Heads, ls \in SeqsUpTo(FmLines, MaxLines),
        c \in Closers, ws \in SeqsUpTo(BodyWords, MaxWords)}

\* every text of at most MaxLen of the characters the wikilink scanner tells
\* apart
LinkChars == {"[", "]", "|", " ", "a"}
LinkTexts == SeqsUpTo(LinkChars, MaxLen)

InitParse ==
    /\ outgoing = new_outgoing
    /\ name_to_path = new_name_to_path
    /\ last = NoCall
    /\ pc = [t \in Threads |-> "idle"]
    /\ call = [t \in Threads |-> NoThreadCall]
    /\ out_readers = {}
    /\ n2p_readers = {}
    /\ vault_path = None
    /\ files = [x \in {} |-> <<>>]
    /\ docs = [x \in {} |-> <<>>]
    /\ ret = NoCommand
    /\ input \in NoteTexts \cup LinkTexts
    /\ note = NoNote
    /\ vault_lock = Free
    /\ writer_lock = Free
    /\ to_index = [t \in Threads |-> <<>>]
    /\ writer_first = FALSE
    /\ committed = <<>>
    /\ staged = <<>>
    /\ started = [t \in Threads |-> 0]

\* parser::parse_note(&input)
ParseNote ==
    /\ ~note.done
    /\ note' = [done |-> TRUE] @@ parse_note(input)
    /\ UNCHANGED <<gvars, last, cvars, ivars, input, lvars>>

NextParse == ParseNote

SpecParse == InitParse /\ [][NextParse]_vars

(* ---------------- the commands, run by several threads --------------- *)

\* a guard that is kept past the end of its scope
drop_guard_leaked(lock, t) == lock

\* the guard of a mutex is dropped
drop_guard(lock, t) == IF lock = t THEN Free ELSE lock

\* the threads that run commands
LockThreads == {"t1", "t2", "t3"}
\* most commands a thread starts
MaxCommands == 1

\* the threads whose next statement takes a write lock
WritersOfOutgoing == {u \in LockThreads : pc[u] \in {"iv_update", "rf_update"}}
WritersOfNames == {u \in LockThreads : pc[u] \in {"iv_register", "rf_register"}}

\* a read lock can be taken: no writer holds a lock across statements, and
\* under writer_first no writer is waiting for it
CanReadOutgoing == writer_first => WritersOfOutgoing = {}
CanReadNames == writer_first => WritersOfNames = {}

\* the disk of the vault: the note the threads index and reindex
LockDisk == (join(ROOT, A_MD) :> TextFile(T_B))

InitLock ==
    /\ outgoing = new_outgoing
    /\ name_to_path = new_name_to_path
    /\ last = NoCall
    /\ pc = [t \in LockThreads |-> "idle"]
    /\ call = [t \in LockThreads |-> NoThreadCall]
    /\ out_readers = {}
    /\ n2p_readers = {}
    /\ vault_path = None
    /\ files = LockDisk
    /\ docs = [x \in {} |-> <<>>]
    /\ ret = NoCommand
    /\ input = <<>>
    /\ note = NoNote
    /\ vault_lock = Free
    /\ writer_lock = Free
    /\ to_index = [t \in LockThreads |-> <<>>]
    /\ writer_first \in BOOLEAN
    /\ committed = <<>>
    /\ staged = <<>>
    /\ started = [t \in LockThreads |-> 0]

\* a thread starts a command
Command(t, op, p) ==
    /\ pc[t] = "idle"
    /\ started[t] < MaxCommands
    /\ started' = [started EXCEPT ![t] = @ + 1]
    /\ pc' = [pc EXCEPT ![t] =
                 CASE op = "open_vault" -> "ov_store"
                   [] op = "reindex_file" -> "rf_lock"
                   [] op = "search_notes" -> "search"
                   [] OTHER -> Entry(op)]
    /\ call' = [call EXCEPT ![t] = [op |-> op, path |-> p, targets |-> <<>>,
                                    removed |-> FALSE]]
    /\ UNCHANGED <<ivars, pvars, gvars, last, out_readers, n2p_readers,
                   vault_lock, writer_lock, to_index, writer_first, committed,
                   staged>>

\* index_vault lines 139-143: rel_path of the entry the walk is at
rel_path_at(entries, old) ==
    IF entries = <<>> THEN old ELSE rel_path_of(Head(entries), ROOT)

\* open_vault line 29: the vault mutex is taken for one statement; then
\* index_vault walks the vault in the order entries
OvStore(t, entries) ==
    /\ pc[t] = "ov_store"
    /\ vault_lock = Free
    /\ vault_path' = ROOT
    /\ to_index' = [to_index EXCEPT ![t] = entries]
    /\ call' = [call EXCEPT ![t].path = rel_path_at(entries, @)]
    /\ pc' = [pc EXCEPT ![t] = IF entries = <<>> THEN "idle" ELSE "iv_index"]
    /\ UNCHANGED <<gvars, last, out_readers, n2p_readers, files, docs,
                   ret, pvars, vault_lock, writer_lock, writer_first, started,
                   committed, staged>>

\* index_note line 45: the writer mutex is taken
IndexLock(t) ==
    /\ pc[t] \in {"iv_index", "rf_index"}
    /\ writer_lock = Free
    /\ writer_lock' = t
    /\ pc' = [pc EXCEPT ![t] = IF pc[t] = "iv_index" THEN "iv_commit"
                               ELSE "rf_commit"]
    /\ UNCHANGED <<gvars, last, call, out_readers, n2p_readers, ivars, pvars,
                   vault_lock, to_index, writer_first, started,
                   committed, staged>>

\* index_vault lines 158-160: index_note returns, its error discarded
IvCommit(t, ok) ==
    LET path == Head(to_index[t])
        parsed == parse_note(files[path].text)
    IN  /\ pc[t] = "iv_commit"
        /\ docs' = IF ok THEN index_note(docs, call[t].path,
                                         title_of(parsed, path),
                                         files[path].text, parsed.tags)
                   ELSE docs
        /\ writer_lock' = drop_guard(writer_lock, t)
        /\ pc' = [pc EXCEPT ![t] = "iv_register"]
        /\ UNCHANGED <<gvars, last, call, out_readers, n2p_readers, vault_path,
                       files, ret, pvars, vault_lock, to_index, writer_first, started,
                   committed, staged>>

\* index_vault line 162, reindex_file line 114: register_note
Register(t) ==
    /\ pc[t] \in {"iv_register", "rf_register"}
    /\ n2p_readers = {}
    /\ name_to_path' = register_note(name_to_path, call[t].path)
    /\ pc' = [pc EXCEPT ![t] = IF pc[t] = "iv_register" THEN "iv_update"
                               ELSE "rf_update"]
    /\ UNCHANGED <<outgoing, last, call, out_readers, n2p_readers, ivars, pvars,
                   lvars>>

\* index_vault line 163: update_links, then the next entry of the walk
IvUpdate(t) ==
    LET path == Head(to_index[t])
    IN  /\ pc[t] = "iv_update"
        /\ out_readers = {}
        /\ outgoing' = update_links(outgoing, call[t].path,
                                    extract_wikilinks(files[path].text))
        /\ to_index' = [to_index EXCEPT ![t] = Tail(to_index[t])]
        /\ call' = [call EXCEPT ![t].path = rel_path_at(Tail(to_index[t]), @)]
        /\ pc' = [pc EXCEPT ![t] = IF Tail(to_index[t]) = <<>> THEN "idle"
                                   ELSE "iv_index"]
        /\ UNCHANGED <<name_to_path, last, out_readers, n2p_readers,
                       ivars, pvars, vault_lock, writer_lock, writer_first, started,
                   committed, staged>>

\* reindex_file lines 88-93: the vault mutex is taken and kept; without a
\* vault or a readable file the command returns Err, dropping the guard
RfLock(t) ==
    /\ pc[t] = "rf_lock"
    /\ vault_lock = Free
    /\ IF vault_path = None \/ ~readable(join(vault_path, call[t].path))
       THEN /\ pc' = [pc EXCEPT ![t] = "idle"]
            /\ UNCHANGED vault_lock
       ELSE /\ pc' = [pc EXCEPT ![t] = "rf_index"]
            /\ vault_lock' = t
    /\ UNCHANGED <<gvars, last, call, out_readers, n2p_readers, ivars, pvars,
                   writer_lock, to_index, writer_first, started,
                   committed, staged>>

\* reindex_file lines 108-111: index_note returns; its error is returned,
\* dropping the guard of the vault mutex
RfCommit(t, ok) ==
    LET path == call[t].path
        content == files[join(vault_path, path)].text
        parsed == parse_note(content)
    IN  /\ pc[t] = "rf_commit"
        /\ writer_lock' = drop_guard(writer_lock, t)
        /\ IF ok
           THEN /\ docs' = index_note(docs, path, title_of(parsed, path),
                                      content, parsed.tags)
                /\ pc' = [pc EXCEPT ![t] = "rf_register"]
                /\ UNCHANGED vault_lock
           ELSE /\ pc' = [pc EXCEPT ![t] = "idle"]
                /\ vault_lock' = drop_guard(vault_lock, t)
                /\ UNCHANGED docs
        /\ UNCHANGED <<gvars, last, call, out_readers, n2p_readers, vault_path,
                       files, ret, pvars, to_index, writer_first, started,
                   committed, staged>>

\* reindex_file lines 115-118: update_links, then Ok drops the guard
RfUpdate(t) ==
    /\ pc[t] = "rf_update"
    /\ out_readers = {}
    /\ outgoing' = update_links(outgoing, call[t].path,
                       extract_wikilinks(files[join(vault_path, call[t].path)].text))
    /\ vault_lock' = drop_guard(vault_lock, t)
    /\ pc' = [pc EXCEPT ![t] = "idle"]
    /\ UNCHANGED <<name_to_path, last, call, out_readers, n2p_readers, ivars,
                   pvars, writer_lock, to_index, writer_first, started,
                   committed, staged>>

\* search_notes: SearchIndex::search reads through a reader, no lock taken
Search(t) ==
    /\ pc[t] = "search"
    /\ pc' = [pc EXCEPT ![t] = "idle"]
    /\ UNCHANGED <<gvars, last, call, out_readers, n2p_readers, ivars, pvars,
                   lvars>>

\* the statements of thread t that take or wait for a read lock
LockedRead(t) ==
    \/ /\ IF call[t].op = "resolve_link" THEN CanReadNames ELSE CanReadOutgoing
       /\ ReadOne(t)
    \/ CanReadOutgoing /\ ReadOutgoing(t)
    \/ CanReadNames /\ ReadNames(t)
    \/ Build(t)

\* a statement of the command thread t runs
Step(t) ==
    \/ \E entries \in Orders(Walked(ROOT)) : OvStore(t, entries)
    \/ IndexLock(t)
    \/ \E ok \in BOOLEAN : IvCommit(t, ok)
    \/ Register(t)
    \/ IvUpdate(t)
    \/ RfLock(t)
    \/ \E ok \in BOOLEAN : RfCommit(t, ok)
    \/ RfUpdate(t)
    \/ Search(t)
    \/ LockedRead(t)

Commands == {"open_vault", "reindex_file", "search_notes", "get_backlinks",
             "resolve_link", "get_graph_data", "get_local_graph"}

NextLock ==
    \/ \E t \in LockThreads, op \in Commands : Command(t, op, A_MD)
    \/ \E t \in LockThreads : Step(t)

SpecLock == InitLock /\ [][NextLock]_vars

\* fair scheduling: a thread whose next statement can run again and again
\* does run it
SpecLockFair == SpecLock /\ \A t \in LockThreads : SF_vars(Step(t))

(* ------------------- the writer of the search index ------------------ *)

\* SearchIndex::index_note and SearchIndex::remove_note, statement by
\* statement, for calls in which add_document and commit return Ok

\* doc!(path, title, body, tags.join(" "))
document(path, title, body, tags) ==
    [path |-> path, title |-> title, body |-> body, tags |-> join_tags(tags)]

\* a delete_term that stages nothing
delete_term_skipped(ops, path) == ops

\* IndexWriter::delete_term on the path field: the operation is staged
delete_term(ops, path) == Append(ops, [op |-> "delete", path |-> path])

\* IndexWriter::add_document: the operation is staged
add_document(ops, d) == Append(ops, [op |-> "add", doc |-> d])

\* the documents whose path field is not the term: path is a STRING field,
\* indexed as one untokenized term
without_term(ds, path) == SelectSeq(ds, LAMBDA d : d.path # path)

\* IndexWriter::commit: the staged operations take effect in their order; a
\* delete removes the documents added before it
RECURSIVE commit(_, _)
commit(ds, ops) ==
    IF ops = <<>> THEN ds
    ELSE commit(IF Head(ops).op = "delete"
                THEN without_term(ds, Head(ops).path)
                ELSE Append(ds, Head(ops).doc),
                Tail(ops))

\* the notes handed to index_note
SearchPaths == {A_MD, B_MD}
SearchNotes ==
    {[title |-> <<"t">>, body |-> T_B, tags |-> <<>>],
     [title |-> <<"t">>, body |-> T_AB, tags |-> << <<"a">> >>],
     [title |-> <<"u">>, body |-> T_AB, tags |-> << <<"a">>, <<"b">> >>]}

InitSearch ==
    /\ outgoing = new_outgoing
    /\ name_to_path = new_name_to_path
    /\ last = NoCall
    /\ pc = [t \in Threads |-> "idle"]
    /\ call = [t \in Threads |-> NoThreadCall]
    /\ out_readers = {}
    /\ n2p_readers = {}
    /\ vault_path = None
    /\ files = [x \in {} |-> <<>>]
    /\ docs = [x \in {} |-> <<>>]
    /\ ret = NoCommand
    /\ input = <<>>
    /\ note = NoNote
    /\ vault_lock = Free
    /\ writer_lock = Free
    /\ to_index = [t \in Threads |-> <<>>]
    /\ writer_first = FALSE
    /\ committed = <<>>
    /\ staged = <<>>
    /\ started = [t \in Threads |-> 0]

\* a thread calls SearchIndex::index_note
CallIndexNote(t, path, n) ==
    /\ pc[t] = "idle"
    /\ pc' = [pc EXCEPT ![t] = "writer_lock"]
    /\ call' = [call EXCEPT ![t] = [op |-> "index_note", path |-> path,
                                    title |-> n.title, body |-> n.body,
                                    tags |-> n.tags]]
    /\ UNCHANGED <<gvars, last, out_readers, n2p_readers, ivars, pvars, lvars>>

\* a thread calls SearchIndex::remove_note
CallRemoveNote(t, path) ==
    /\ pc[t] = "idle"
    /\ pc' = [pc EXCEPT ![t] = "writer_lock"]
    /\ call' = [call EXCEPT ![t] = [op |-> "remove_note", path |-> path]]
    /\ UNCHANGED <<gvars, last, out_readers, n2p_readers, ivars, pvars, lvars>>

\* index_note line 45, remove_note line 65: self.writer.lock()
WriterLock(t) ==
    /\ pc[t] = "writer_lock"
    /\ writer_lock = Free
    /\ writer_lock' = t
    /\ pc' = [pc EXCEPT ![t] = "delete_term"]
    /\ UNCHANGED <<gvars, last, call, out_readers, n2p_readers, ivars, pvars,
                   vault_lock, to_index, writer_first, started, committed, staged>>

\* index_note lines 48-49, remove_note lines 66-67
DeleteTerm(t) ==
    /\ pc[t] = "delete_term"
    /\ staged' = delete_term(staged, call[t].path)
    /\ pc' = [pc EXCEPT ![t] = IF call[t].op = "index_note" THEN "add_document"
                               ELSE "commit"]
    /\ UNCHANGED <<gvars, last, call, out_readers, n2p_readers, ivars, pvars,
                   vault_lock, writer_lock, to_index, writer_first, started, committed>>

\* index_note lines 52-57
AddDocument(t) ==
    /\ pc[t] = "add_document"
    /\ staged' = add_document(staged,
                     document(call[t].path, call[t].title, call[t].body,
                              call[t].tags))
    /\ pc' = [pc EXCEPT ![t] = "commit"]
    /\ UNCHANGED <<gvars, last, call, out_readers, n2p_readers, ivars, pvars,
                   vault_lock, writer_lock, to_index, writer_first, started, committed>>

\* index_note lines 59-60, remove_note lines 68-69: commit, then Ok(())
\* drops the guard of the writer
Commit(t) ==
    /\ pc[t] = "commit"
    /\ committed' = commit(committed, staged)
    /\ staged' = <<>>
    /\ writer_lock' = drop_guard(writer_lock, t)
    /\ pc' = [pc EXCEPT ![t] = "idle"]
    /\ UNCHANGED <<gvars, last, call, out_readers, n2p_readers, ivars, pvars,
                   vault_lock, to_index, writer_first, started>>

NextSearch ==
    \/ \E t \in Threads, path \in SearchPaths, n \in SearchNotes :
         CallIndexNote(t, path, n)
    \/ \E t \in Threads, path \in SearchPaths : CallRemoveNote(t, path)
    \/ \E t \in Threads : WriterLock(t)
    \/ \E t \in Threads : DeleteTerm(t)
    \/ \E t \in Threads : AddDocument(t)
    \/ \E t \in Threads : Commit(t)

SpecSearch == InitSearch /\ [][NextSearch]_vars

(* ----------------------- searching the index -------------------------- *)

\* the limit of the snippet, in bytes: body.len() > 200, &body[..200]
SNIPPET_BYTES == 200
\* how far the lengths of the bodies lie from the limit
MaxSlack == 6

\* a character of two bytes in UTF-8
WIDE == "é"

\* str::len: the number of bytes of the UTF-8 encoding
byte_len(s) == Len(s) + Cardinality({i \in DOMAIN s : s[i] = WIDE})

\* the byte offsets at which a character of s starts or s ends
char_boundaries(s) == {byte_len(SubSeq(s, 1, i)) : i \in 0..Len(s)}

\* the characters of s that lie before the byte offset n, a char boundary
chars_before(s, n) ==
    SubSeq(s, 1, CHOOSE i \in 0..Len(s) : byte_len(SubSeq(s, 1, i)) = n)

\* search lines 107-112: the snippet of a body; slicing a str off a char
\* boundary panics
snippet(body) ==
    IF byte_len(body) > SNIPPET_BYTES
    THEN IF SNIPPET_BYTES \in char_boundaries(body)
         THEN [panic |-> FALSE,
               text |-> chars_before(body, SNIPPET_BYTES) \o <<".", ".", ".">>]
         ELSE [panic |-> TRUE, text |-> <<>>]
    ELSE [panic |-> FALSE, text |-> body]

\* search lines 89-120: the results of the documents the query matched
RECURSIVE search_results(_)
search_results(hits) ==
    IF hits = <<>> THEN [panic |-> FALSE, results |-> <<>>]
    ELSE LET sn == snippet(Head(hits).body)
             rest == search_results(Tail(hits))
         IN  IF sn.panic \/ rest.panic THEN [panic |-> TRUE, results |-> <<>>]
             ELSE [panic |-> FALSE,
                   results |-> <<[path |-> Head(hits).path,
                                  title |-> Head(hits).title,
                                  snippet |-> sn.text]>> \o rest.results]

\* n times the character c
Repeat(c, n) == [i \in 1..n |-> c]

\* bodies whose lengths lie around the limit, some with one wide character
\* near it
SnippetBodies ==
    {Repeat("a", n) : n \in (SNIPPET_BYTES - MaxSlack)..(SNIPPET_BYTES + MaxSlack)}
        \cup {Repeat("a", k) \o <<WIDE>> \o Repeat("a", n) :
                  k \in (SNIPPET_BYTES - 3)..SNIPPET_BYTES, n \in 0..MaxSlack}

InitSnippet ==
    /\ outgoing = new_outgoing
    /\ name_to_path = new_name_to_path
    /\ last = NoCall
    /\ pc = [t \in Threads |-> "idle"]
    /\ call = [t \in Threads |-> NoThreadCall]
    /\ out_readers = {}
    /\ n2p_readers = {}
    /\ vault_path = None
    /\ files = [x \in {} |-> <<>>]
    /\ docs = [x \in {} |-> <<>>]
    /\ ret = NoCommand
    /\ input = <<>>
    /\ note = NoNote
    /\ vault_lock = Free
    /\ writer_lock = Free
    /\ to_index = [t \in Threads |-> <<>>]
    /\ writer_first = FALSE
    /\ \E body \in SnippetBodies :
           committed = <<document(A_MD, <<"t">>, body, <<>>)>>
    /\ staged = <<>>
    /\ started = [t \in Threads |-> 0]

\* search_notes: the query matched the documents hits of the committed index
SearchCommand(hits) ==
    /\ ret.cmd = "none"
    /\ ret' = [cmd |-> "search_notes", hits |-> hits] @@ search_results(hits)
    /\ UNCHANGED <<gvars, last, cvars, vault_path, files, docs, pvars, lvars>>

NextSnippet == \E hits \in {<<>>, committed} : SearchCommand(hits)

SpecSnippet == InitSnippet /\ [][NextSnippet]_vars

(* ------------------ the traversal of get_local_graph ------------------ *)

\* an iteration that expands a name however often it is popped
local_step_revisiting(out, n2p, depth, ord, st) ==
    LET name == st.to_visit[Len(st.to_visit)][1]
        d == st.to_visit[Len(st.to_visit)][2]
        rest == SubSeq(st.to_visit, 1, Len(st.to_visit) - 1)
    IN  IF d > depth
        THEN [st EXCEPT !.to_visit = rest]
        ELSE
          LET targets == local_targets(out, n2p, name)
              sources == local_sources(out, name, ord)
          IN  [visited |-> st.visited \cup {name},
               to_visit |-> rest
                   \o (IF d < depth
                       THEN [i \in 1..Len(targets) |-> <<targets[i], d + 1>>]
                       ELSE <<>>)
                   \o (IF d < depth
                       THEN [i \in 1..Len(sources) |->
                                 <<file_stem(sources[i]), d + 1>>]
                       ELSE <<>>),
               edges |-> st.edges \o edges_from(name, targets)
                   \o [i \in 1..Len(sources) |->
                           [source |-> file_stem(sources[i]), target |-> name]],
               expanded |-> Append(st.expanded, name)]

\* lines 155-193: one iteration of the while loop on the state st of the
\* traversal; expanded lists the names whose edges were gathered, in order
local_step(out, n2p, depth, ord, st) ==
    LET name == st.to_visit[Len(st.to_visit)][1]
        d == st.to_visit[Len(st.to_visit)][2]
        rest == SubSeq(st.to_visit, 1, Len(st.to_visit) - 1)
    IN  IF name \in st.visited \/ d > depth
        THEN [st EXCEPT !.to_visit = rest]
        ELSE
          LET visited2 == st.visited \cup {name}
              targets == local_targets(out, n2p, name)
              sources == local_sources(out, name, ord)
              fresh == SelectSeq(sources, LAMBDA s : file_stem(s) \notin visited2)
          IN  [visited |-> visited2,
               to_visit |-> rest
                   \o (IF d < depth
                       THEN [i \in 1..Len(targets) |-> <<targets[i], d + 1>>]
                       ELSE <<>>)
                   \o (IF d < depth
                       THEN [i \in 1..Len(fresh) |-> <<file_stem(fresh[i]), d + 1>>]
                       ELSE <<>>),
               edges |-> st.edges \o edges_from(name, targets)
                   \o [i \in 1..Len(sources) |->
                           [source |-> file_stem(sources[i]), target |-> name]],
               expanded |-> Append(st.expanded, name)]

\* lines 151-153: the state of the traversal before the loop
local_start(path) ==
    [visited |-> {}, to_visit |-> <<<<file_stem(path), 0>>>>, edges |-> <<>>,
     expanded |-> <<>>]

\* lines 195-220: the result built from the state the loop ended in
local_result(n2p, st) ==
    [nodes |-> SetToBag({graph_node(n2p, id, count_target(st.edges, id)) :
                             id \in st.visited}),
     edges |-> dedup_edges(sort_edges(st.edges))]

\* the target lists of the graphs the traversal runs on: a cycle between a
\* and b, self-links, a dangling target
WalkLists == {<<>>, << <<"a">> >>, << <<"b">> >>, << <<"b">>, <<"q">> >>}

\* the graphs: a.md, b.md and x/a.md hold links; the name a is registered
\* for a.md or for x/a.md
WalkGraphs ==
    {[outgoing |-> (A_MD :> la) @@ (B_MD :> lb) @@ (X_A_MD :> lx),
      name_to_path |-> register_note(register_note(new_name_to_path, pa), B_MD)] :
         la \in WalkLists, lb \in WalkLists, lx \in WalkLists \ {<<>>},
         pa \in {A_MD, X_A_MD}}

InitWalk ==
    /\ \E g \in WalkGraphs :
           outgoing = g.outgoing /\ name_to_path = g.name_to_path
    /\ last = NoCall
    /\ pc = [t \in Threads |-> "idle"]
    /\ call = [t \in Threads |-> NoThreadCall]
    /\ out_readers = {}
    /\ n2p_readers = {}
    /\ vault_path = None
    /\ files = [x \in {} |-> <<>>]
    /\ docs = [x \in {} |-> <<>>]
    /\ ret = NoCommand
    /\ input = <<>>
    /\ note = NoNote
    /\ vault_lock = Free
    /\ writer_lock = Free
    /\ to_index = [t \in Threads |-> <<>>]
    /\ writer_first = FALSE
    /\ committed = <<>>
    /\ staged = <<>>
    /\ started = [t \in Threads |-> 0]

\* get_local_graph(path, depth) is called; outgoing will be iterated as ord
LocalGraphCalled(path, depth, ord) ==
    /\ ret.cmd = "none"
    /\ ret' = [cmd |-> "get_local_graph", path |-> path, depth |-> depth,
               ord |-> ord, done |-> FALSE, st |-> local_start(path)]
    /\ UNCHANGED <<gvars, last, cvars, vault_path, files, docs, pvars, lvars>>

\* one iteration of the while loop
LocalGraphStep ==
    /\ ret.cmd = "get_local_graph"
    /\ ~ret.done
    /\ ret.st.to_visit # <<>>
    /\ ret' = [ret EXCEPT !.st = local_step(outgoing, name_to_path, ret.depth,
                                            ret.ord, ret.st)]
    /\ UNCHANGED <<gvars, last, cvars, vault_path, files, docs, pvars, lvars>>

\* to_visit.pop() returns None: the result is built and returned
LocalGraphReturns ==
    /\ ret.cmd = "get_local_graph"
    /\ ~ret.done
    /\ ret.st.to_visit = <<>>
    /\ ret' = [ret EXCEPT !.done = TRUE] @@ local_result(name_to_path, ret.st)
    /\ UNCHANGED <<gvars, last, cvars, vault_path, files, docs, pvars, lvars>>

NextWalk ==
    \/ \E path \in {A_MD, B_MD}, depth \in 0..MaxDepth,
          ord \in Orders(DOMAIN outgoing) : LocalGraphCalled(path, depth, ord)
    \/ LocalGraphStep
    \/ LocalGraphReturns

SpecWalk == InitWalk /\ [][NextWalk]_vars

\* the thread that runs the call keeps running it: weak fairness of the loop
\* and the return, WF_vars(LocalGraphStep \/ LocalGraphReturns), with what
\* enables them written out: a call that has not returned
SpecWalkFair ==
    SpecWalk /\ ([]<>~(ret.cmd = "get_local_graph" /\ ~ret.done)
                    \/ []<><<LocalGraphStep \/ LocalGraphReturns>>_vars)

(* -------------------------- the file commands ------------------------- *)

\* what a command of commands::files returned
file_result(cmd, path, ok) ==
    [cmd |-> cmd, path |-> path, ok |-> ok, parsed |-> {}, upsert_failed |-> {}]

\* create_note line 55: format!("# {}\n\n", name)
initial_content(path) == <<"#", " ">> \o file_stem(path) \o <<"\n", "\n">>

\* commands::files::create_note
CreateNote(path) ==
    /\ IF vault_path = None \/ join(vault_path, path) \in DOMAIN files
       THEN /\ ret' = file_result("create_note", path, FALSE)
            /\ UNCHANGED files
       ELSE /\ files' = map_insert(files, join(vault_path, path),
                                   TextFile(initial_content(path)))
            /\ ret' = file_result("create_note", path, TRUE)
    /\ UNCHANGED <<gvars, vault_path, docs, last, cvars, pvars, lvars>>

\* commands::files::delete_file
DeleteFile(path) ==
    /\ IF vault_path = None \/ join(vault_path, path) \notin DOMAIN files
       THEN /\ ret' = file_result("delete_file", path, FALSE)
            /\ UNCHANGED files
       ELSE /\ files' = map_remove(files, join(vault_path, path))
            /\ ret' = file_result("delete_file", path, TRUE)
    /\ UNCHANGED <<gvars, vault_path, docs, last, cvars, pvars, lvars>>

\* commands::files::rename_file: fs::rename replaces a file at new_path
RenameFile(old_path, new_path) ==
    /\ IF vault_path = None \/ join(vault_path, old_path) \notin DOMAIN files
       THEN /\ ret' = file_result("rename_file", old_path, FALSE)
            /\ UNCHANGED files
       ELSE /\ files' = map_insert(map_remove(files, join(vault_path, old_path)),
                                   join(vault_path, new_path),
                                   files[join(vault_path, old_path)])
            /\ ret' = file_result("rename_file", old_path, TRUE)
    /\ UNCHANGED <<gvars, vault_path, docs, last, cvars, pvars, lvars>>

\* the disk before the application starts: two vaults of one note each
FilesDisk ==
    (join(ROOT, A_MD) :> TextFile(T_B)) @@ (join(SECOND, B_MD) :> TextFile(T_AB))

InitFiles ==
    /\ outgoing = new_outgoing
    /\ name_to_path = new_name_to_path
    /\ last = NoCall
    /\ pc = [t \in Threads |-> "idle"]
    /\ call = [t \in Threads |-> NoThreadCall]
    /\ out_readers = {}
    /\ n2p_readers = {}
    /\ vault_path = None
    /\ files = FilesDisk
    /\ docs = [x \in {} |-> <<>>]
    /\ ret = NoCommand
    /\ input = <<>>
    /\ note = NoNote
    /\ vault_lock = Free
    /\ writer_lock = Free
    /\ to_index = [t \in Threads |-> <<>>]
    /\ writer_first = FALSE
    /\ committed = <<>>
    /\ staged = <<>>
    /\ started = [t \in Threads |-> 0]

NextFiles ==
    \/ \E path \in {ROOT, SECOND, MISSING} :
         \E walk \in Orders(Walked(path)) : OpenVault(path, walk, {})
    \/ \E upsert_ok \in BOOLEAN : ReindexFile(A_MD, upsert_ok)
    \/ WriteFile(A_MD, TextFile(T_AB))
    \/ CreateNote(B_MD)
    \/ \E path \in NoteFiles : DeleteFile(path)
    \/ RenameFile(A_MD, B_MD)

SpecFiles == InitFiles /\ [][NextFiles]_vars

(* ---------------- indexing a note while it is written ----------------- *)

\* the commands that read or write the note of the vault
NoteCommands == {"open_vault", "reindex_file", "write_file"}

\* a command of a thread: content and targets are what it read from the
\* file and the links parsed from that
NoNoteCall ==
    [op |-> "none", path |-> None, targets |-> <<>>, removed |-> FALSE,
     content |-> <<>>]

\* fs::read_to_string(path) followed by parser::parse_note(&content)
read_and_parse(c, rel, full_path) ==
    [c EXCEPT !.path = rel,
              !.content = files[full_path].text,
              !.targets = parse_note(files[full_path].text).links]

\* the read that was made last
last_read(rel, full_path) ==
    [op |-> "read_to_string", path |-> rel,
     targets |-> parse_note(files[full_path].text).links]

InitNote ==
    /\ outgoing = new_outgoing
    /\ name_to_path = new_name_to_path
    /\ last = NoCall
    /\ pc = [t \in LockThreads |-> "idle"]
    /\ call = [t \in LockThreads |-> NoNoteCall]
    /\ out_readers = {}
    /\ n2p_readers = {}
    /\ vault_path = None
    /\ files = LockDisk
    /\ docs = [x \in {} |-> <<>>]
    /\ ret = NoCommand
    /\ input = <<>>
    /\ note = NoNote
    /\ vault_lock = Free
    /\ writer_lock = Free
    /\ to_index = [t \in LockThreads |-> <<>>]
    /\ writer_first = FALSE
    /\ committed = <<>>
    /\ staged = <<>>
    /\ started = [t \in LockThreads |-> 0]

\* a thread starts a command on the note a.md
NoteCommand(t, op) ==
    /\ pc[t] = "idle"
    /\ started[t] < MaxCommands
    /\ started' = [started EXCEPT ![t] = @ + 1]
    /\ pc' = [pc EXCEPT ![t] =
                 CASE op = "open_vault" -> "ov_store"
                   [] op = "reindex_file" -> "rf_lock"
                   [] op = "write_file" -> "wf_lock"]
    /\ call' = [call EXCEPT ![t] = [NoNoteCall EXCEPT !.op = op, !.path = A_MD]]
    /\ UNCHANGED <<ivars, pvars, gvars, last, out_readers, n2p_readers,
                   vault_lock, writer_lock, to_index, writer_first, committed,
                   staged>>

\* open_vault line 29: the vault mutex is taken for one statement; then
\* index_vault walks the vault in the order entries
OvWalk(t, entries) ==
    /\ pc[t] = "ov_store"
    /\ vault_lock = Free
    /\ vault_path' = ROOT
    /\ to_index' = [to_index EXCEPT ![t] = entries]
    /\ pc' = [pc EXCEPT ![t] = IF entries = <<>> THEN "ok" ELSE "iv_read"]
    /\ UNCHANGED <<gvars, last, call, out_readers, n2p_readers, files, docs,
                   ret, pvars, vault_lock, writer_lock, writer_first, started,
                   committed, staged>>

\* index_vault lines 139-146: the entry is read and parsed, no mutex held;
\* an entry that is not a readable note is passed over
IvRead(t) ==
    LET path == Head(to_index[t])
    IN  /\ pc[t] = "iv_read"
        /\ IF eligible(path) /\ readable(path)
           THEN /\ call' = [call EXCEPT ![t] =
                               read_and_parse(@, rel_path_of(path, ROOT), path)]
                /\ last' = last_read(rel_path_of(path, ROOT), path)
                /\ pc' = [pc EXCEPT ![t] = "iv_index"]
                /\ UNCHANGED to_index
           ELSE /\ to_index' = [to_index EXCEPT ![t] = Tail(@)]
                /\ pc' = [pc EXCEPT ![t] = IF Tail(to_index[t]) = <<>>
                                           THEN "ok" ELSE "iv_read"]
                /\ UNCHANGED <<call, last>>
        /\ UNCHANGED <<gvars, out_readers, n2p_readers, ivars, pvars,
                       vault_lock, writer_lock, writer_first, started,
                       committed, staged>>

\* index_vault lines 158-160: index_note returns, its error discarded
IvIndexed(t, ok) ==
    /\ pc[t] = "iv_commit"
    /\ docs' = IF ok THEN index_note(docs, call[t].path,
                                     title_of(parse_note(call[t].content),
                                              Head(to_index[t])),
                                     call[t].content,
                                     parse_note(call[t].content).tags)
               ELSE docs
    /\ writer_lock' = drop_guard(writer_lock, t)
    /\ pc' = [pc EXCEPT ![t] = "iv_register"]
    /\ UNCHANGED <<gvars, last, call, out_readers, n2p_readers, vault_path,
                   files, ret, pvars, vault_lock, to_index, writer_first,
                   started, committed, staged>>

\* index_vault line 163: update_links with the links parsed from what was
\* read, then the next entry of the walk
IvLinked(t) ==
    /\ pc[t] = "iv_update"
    /\ out_readers = {}
    /\ outgoing' = update_links(outgoing, call[t].path, call[t].targets)
    /\ to_index' = [to_index EXCEPT ![t] = Tail(@)]
    /\ pc' = [pc EXCEPT ![t] = IF Tail(to_index[t]) = <<>> THEN "ok"
                               ELSE "iv_read"]
    /\ UNCHANGED <<name_to_path, last, call, out_readers, n2p_readers,
                   ivars, pvars, vault_lock, writer_lock, writer_first,
                   started, committed, staged>>

\* reindex_file lines 88-93: the vault mutex is taken and kept, the file is
\* read and parsed; without a vault or a readable file the command returns
\* Err
RfRead(t) ==
    /\ pc[t] = "rf_lock"
    /\ vault_lock = Free
    /\ IF vault_path = None \/ ~readable(join(vault_path, call[t].path))
       THEN /\ pc' = [pc EXCEPT ![t] = "err"]
            /\ UNCHANGED <<vault_lock, call, last>>
       ELSE /\ pc' = [pc EXCEPT ![t] = "rf_index"]
            /\ vault_lock' = t
            /\ call' = [call EXCEPT ![t] =
                           read_and_parse(@, call[t].path,
                                          join(vault_path, call[t].path))]
            /\ last' = last_read(call[t].path, join(vault_path, call[t].path))
    /\ UNCHANGED <<gvars, out_readers, n2p_readers, ivars, pvars,
                   writer_lock, to_index, writer_first, started,
                   committed, staged>>

\* reindex_file lines 108-111: index_note returns; its error is returned,
\* dropping the guard of the vault mutex
RfIndexed(t, ok) ==
    /\ pc[t] = "rf_commit"
    /\ writer_lock' = drop_guard(writer_lock, t)
    /\ IF ok
       THEN /\ docs' = index_note(docs, call[t].path,
                                  title_of(parse_note(call[t].content),
                                           call[t].path),
                                  call[t].content,
                                  parse_note(call[t].content).tags)
            /\ pc' = [pc EXCEPT ![t] = "rf_register"]
            /\ UNCHANGED vault_lock
       ELSE /\ pc' = [pc EXCEPT ![t] = "err"]
            /\ vault_lock' = drop_guard(vault_lock, t)
            /\ UNCHANGED docs
    /\ UNCHANGED <<gvars, last, call, out_readers, n2p_readers, vault_path,
                   files, ret, pvars, to_index, writer_first, started,
                   committed, staged>>

\* reindex_file lines 115-118: update_links with the links parsed from what
\* was read, then Ok drops the guard
RfLinked(t) ==
    /\ pc[t] = "rf_update"
    /\ out_readers = {}
    /\ outgoing' = update_links(outgoing, call[t].path, call[t].targets)
    /\ vault_lock' = drop_guard(vault_lock, t)
    /\ pc' = [pc EXCEPT ![t] = "ok"]
    /\ UNCHANGED <<name_to_path, last, call, out_readers, n2p_readers, ivars,
                   pvars, writer_lock, to_index, writer_first, started,
                   committed, staged>>

\* commands::files::write_file: under the vault mutex, data replaces the file
WfWrite(t, data) ==
    /\ pc[t] = "wf_lock"
    /\ vault_lock = Free
    /\ IF vault_path = None
       THEN /\ pc' = [pc EXCEPT ![t] = "err"]
            /\ UNCHANGED files
       ELSE /\ files' = map_insert(files, join(vault_path, call[t].path), data)
            /\ pc' = [pc EXCEPT ![t] = "ok"]
    /\ UNCHANGED <<gvars, last, call, out_readers, n2p_readers, vault_path,
                   docs, ret, pvars, lvars>>

NextNote ==
    \/ \E t \in LockThreads, op \in NoteCommands : NoteCommand(t, op)
    \/ \E t \in LockThreads :
         \E entries \in Orders(Walked(ROOT)) : OvWalk(t, entries)
    \/ \E t \in LockThreads : IvRead(t)
    \/ \E t \in LockThreads : IndexLock(t)
    \/ \E t \in LockThreads, ok \in BOOLEAN : IvIndexed(t, ok)
    \/ \E t \in LockThreads : Register(t)
    \/ \E t \in LockThreads : IvLinked(t)
    \/ \E t \in LockThreads : RfRead(t)
    \/ \E t \in LockThreads, ok \in BOOLEAN : RfIndexed(t, ok)
    \/ \E t \in LockThreads : RfLinked(t)
    \/ \E t \in LockThreads, c \in Contents : WfWrite(t, TextFile(c))

SpecNote == InitNote /\ [][NextNote]_vars


(* ------------------------------- claims ------------------------------- *)

\* C1: in both indexing modes, once a note's file has been read and parsed,
\* register_note(path) and update_links(path, parsed links) are applied to
\* the graph whether the search upsert succeeds or fails; in particular,
\* after a reindex_file(p) whose index_note fails, outgoing[p] is the links
\* of the content just parsed and resolve_link(stem(p)) = p.
C1_GraphUpdatedDespiteUpsertFailure ==
    ret.cmd \in {"open_vault", "reindex_file"} =>
        \A p \in ret.parsed :
            /\ p \in DOMAIN outgoing
            /\ outgoing[p] = extract_wikilinks(files[join(vault_path, p)].text)
            /\ resolve_link(name_to_path, file_stem(p)) = p

\* thread u has removed outgoing[p] with the first statement of remove_note
\* and has not executed the last
MidRemove(u) == pc[u] = "remove_name" /\ call[u].removed

\* thread t reads both maps of the graph for a get_graph_data or a
\* get_local_graph
Observing(t) == pc[t] = "build"

\* C2: every LinkGraph operation takes effect as one atomic step: no
\* operation releases a lock and acquires another in between, so no
\* get_graph_data or get_local_graph observes a remove_note(p) half done, with
\* outgoing[p] removed while name_to_path still maps stem(p) to p.
C2_NoTornRemove ==
    \A t, u \in Threads :
        Observing(t) /\ MidRemove(u) =>
            ~ /\ call[u].path \notin DOMAIN outgoing
              /\ resolve_link(name_to_path, file_stem(call[u].path)) = call[u].path

\* C3: for every graph state and every path p, get_local_graph(p, 0) returns
\* exactly one node, the center name stem(p), and no edge, also when the
\* center has outgoing links or is the target of other notes' links.
C3_DepthZeroCenterOnly ==
    \A p \in Paths : \A ord \in Orders(DOMAIN outgoing) :
        LET g == get_local_graph(outgoing, name_to_path, p, 0, ord)
        IN  /\ BagCardinality(g.nodes) = 1
            /\ NodeIds(g) = {file_stem(p)}
            /\ g.edges = <<>>

\* C4: for every graph state, every path p and all depths d1 <= d2, the node
\* set of get_local_graph(p, d1) is a subset of the node set of
\* get_local_graph(p, d2), whatever the order of the targets in the lists.
C4_DepthMonotone ==
    \A p \in LocalPaths : \A ord \in Orders(DOMAIN outgoing) :
        \A d1, d2 \in 0..MaxDepth :
            d1 <= d2 =>
                NodeIds(get_local_graph(outgoing, name_to_path, p, d1, ord))
                    \subseteq
                NodeIds(get_local_graph(outgoing, name_to_path, p, d2, ord))

\* the keys of out whose target list holds the name or the literal path
BacklinkSources(out, p) ==
    {s \in DOMAIN out :
        \E i \in DOMAIN out[s] : out[s][i] = file_stem(p) \/ out[s][i] = p}

RoundTrip(out, n2p, p) ==
    LET out1 == remove_note_outgoing(out, p)
        n2p1 == remove_note_name(n2p, p)
        n2p2 == register_note(n2p1, p)
        out3 == update_links(out1, p, <<>>)
    IN  [outgoing |-> out3, name_to_path |-> n2p2]

\* C6: for any graph state and path p, remove_note(p); register_note(p);
\* update_links(p, []) leaves outgoing[p] = [], name_to_path[stem(p)] = p, and
\* every outgoing entry of another path and every name_to_path entry of
\* another name as it was.
C6_RoundTripFresh ==
    \A p \in Paths :
        LET g == RoundTrip(outgoing, name_to_path, p)
        IN  /\ p \in DOMAIN g.outgoing /\ g.outgoing[p] = <<>>
            /\ file_stem(p) \in DOMAIN g.name_to_path
            /\ g.name_to_path[file_stem(p)] = p
            /\ DOMAIN g.outgoing \ {p} = DOMAIN outgoing \ {p}
            /\ \A q \in DOMAIN outgoing \ {p} : g.outgoing[q] = outgoing[q]
            /\ DOMAIN g.name_to_path \ {file_stem(p)}
                   = DOMAIN name_to_path \ {file_stem(p)}
            /\ \A n \in DOMAIN name_to_path \ {file_stem(p)} :
                   g.name_to_path[n] = name_to_path[n]

\* C6 happens: the last of the three calls was made on a.md, which is
\* linkless and registered, while other notes keep their links and names
C6_Witness ==
    /\ last = [op |-> "update_links", path |-> A_MD, targets |-> <<>>]
    /\ A_MD \in DOMAIN outgoing /\ outgoing[A_MD] = <<>>
    /\ resolve_link(name_to_path, <<"a">>) = A_MD
    /\ X_A_MD \in DOMAIN outgoing /\ outgoing[X_A_MD] # <<>>
    /\ <<"b">> \in DOMAIN name_to_path
    /\ RoundTrip(outgoing, name_to_path, A_MD)
           = [outgoing |-> outgoing, name_to_path |-> name_to_path]

\* the set of edges get_graph_data returns
GraphEdgeSet(out, n2p, ord) == Range(get_graph_data(out, n2p, ord).edges)

\* C7: update_links(p, T) replaces: afterwards outgoing[p] is exactly T, every
\* other outgoing entry and all of name_to_path are unchanged, and a second
\* call with the same T changes neither outgoing nor the edge set of
\* get_graph_data().
C7_UpdateLinksReplaces ==
    [][last'.op = "update_links" =>
         LET p == last'.path
             T == last'.targets
         IN  /\ DOMAIN outgoing' = DOMAIN outgoing \cup {p}
             /\ outgoing'[p] = T
             /\ \A q \in DOMAIN outgoing \ {p} : outgoing'[q] = outgoing[q]
             /\ name_to_path' = name_to_path
             /\ update_links(outgoing', p, T) = outgoing'
             /\ (p \in DOMAIN outgoing /\ outgoing[p] = T =>
                   \A ord \in Orders(DOMAIN outgoing) :
                     GraphEdgeSet(outgoing', name_to_path', ord)
                         = GraphEdgeSet(outgoing, name_to_path, ord))]_vars

\* C7 happens: update_links replaced a.md's list by one with a duplicate
\* while another note has links
C7_Witness ==
    /\ last.op = "update_links" /\ last.path = A_MD
    /\ A_MD \in DOMAIN outgoing /\ outgoing[A_MD] = << <<"b">>, <<"b">> >>
    /\ B_MD \in DOMAIN outgoing /\ outgoing[B_MD] # <<>>
    /\ name_to_path # new_name_to_path

\* C8: register_note(p) sets name_to_path[stem(p)] = p and changes nothing
\* else; a repeated call changes nothing; of two paths with one stem the later
\* call wins, so resolve_link(stem) is the path registered last and
\* get_all_note_names holds the stem exactly once.
C8_RegisterNote ==
    [][last'.op = "register_note" =>
         LET p == last'.path
         IN  /\ DOMAIN name_to_path' = DOMAIN name_to_path \cup {file_stem(p)}
             /\ name_to_path'[file_stem(p)] = p
             /\ \A n \in DOMAIN name_to_path \ {file_stem(p)} :
                    name_to_path'[n] = name_to_path[n]
             /\ outgoing' = outgoing
             /\ register_note(name_to_path', p) = name_to_path'
             /\ resolve_link(name_to_path', file_stem(p)) = p
             /\ \A ord \in Orders(DOMAIN name_to_path') :
                    occurrences(get_all_note_names(name_to_path', ord),
                                file_stem(p)) = 1]_vars

\* C8 happens: x/a.md was registered last, a.md and x/a.md both have links,
\* and the name a they share resolves to x/a.md
C8_Witness ==
    /\ last.op = "register_note" /\ last.path = X_A_MD
    /\ resolve_link(name_to_path, <<"a">>) = X_A_MD
    /\ {A_MD, X_A_MD} \subseteq DOMAIN outgoing
    /\ <<"b">> \in DOMAIN name_to_path

\* C9: remove_note(p) removes outgoing[p] and the name_to_path entry keyed by
\* stem(p) whatever path it holds, so after register_note(a.md),
\* register_note(x/a.md), remove_note(a.md) the name a resolves to None;
\* outgoing entries of other paths and other names are untouched.
C9_RemoveNote ==
    [][last'.op = "remove_note" =>
         LET p == last'.path
         IN  /\ DOMAIN outgoing' = DOMAIN outgoing \ {p}
             /\ \A q \in DOMAIN outgoing' : outgoing'[q] = outgoing[q]
             /\ DOMAIN name_to_path' = DOMAIN name_to_path \ {file_stem(p)}
             /\ \A n \in DOMAIN name_to_path' : name_to_path'[n] = name_to_path[n]
             /\ resolve_link(name_to_path', file_stem(p)) = None]_vars

\* C9 happens: a.md was removed, x/a.md keeps its links, b keeps its name, and
\* the name a that a.md and x/a.md share resolves to nothing
C9_Witness ==
    /\ last.op = "remove_note" /\ last.path = A_MD
    /\ resolve_link(name_to_path, <<"a">>) = None
    /\ A_MD \notin DOMAIN outgoing
    /\ X_A_MD \in DOMAIN outgoing /\ outgoing[X_A_MD] # <<>>
    /\ resolve_link(name_to_path, <<"b">>) = B_MD

\* the occurrences of target t in the lists of the sources named n
RECURSIVE LinkOccurrences(_, _, _, _)
LinkOccurrences(out, S, n, t) ==
    IF S = {} THEN 0
    ELSE LET s == CHOOSE x \in S : TRUE
         IN  (IF file_stem(s) = n THEN occurrences(out[s], t) ELSE 0)
                 + LinkOccurrences(out, S \ {s}, n, t)

\* C10: get_graph_data() returns exactly one node per distinct name among
\* the stems of the keys of outgoing and all raw targets; a node's path is
\* name_to_path[name] when present and name + ".md" otherwise; the edges hold
\* one (stem(s), t) pair per occurrence of t in outgoing[s], duplicates kept;
\* a node's backlink_count is the number of returned edges that target it.
C10_GraphData ==
    \A ord \in Orders(DOMAIN outgoing) :
        LET g == get_graph_data(outgoing, name_to_path, ord)
            names == {file_stem(s) : s \in DOMAIN outgoing}
                         \cup {t \in Targets :
                                 \E s \in DOMAIN outgoing : t \in Range(outgoing[s])}
        IN  /\ NodeIds(g) = names
            /\ BagCardinality(g.nodes) = Cardinality(names)
            /\ \A n \in BagToSet(g.nodes) :
                 /\ n.path = IF n.id \in DOMAIN name_to_path
                             THEN name_to_path[n.id]
                             ELSE n.id \o <<".", "m", "d">>
                 /\ n.backlink_count
                        = Cardinality({i \in DOMAIN g.edges : g.edges[i].target = n.id})
            /\ \A n \in names : \A t \in Targets :
                 Cardinality({i \in DOMAIN g.edges :
                                 g.edges[i] = [source |-> n, target |-> t]})
                     = LinkOccurrences(outgoing, DOMAIN outgoing, n, t)
            /\ \A i \in DOMAIN g.edges :
                 g.edges[i].source \in names /\ g.edges[i].target \in Targets

\* C10 happens: two sources share the stem a, a target is repeated, the name
\* b is registered and the target b.md is not a registered name
C10_Witness ==
    /\ last.op = "update_links"
    /\ DOMAIN outgoing = {A_MD, X_A_MD}
    /\ outgoing[A_MD] = << <<"b">>, <<"b">> >>
    /\ outgoing[X_A_MD] = << <<"b">>, B_MD >>
    /\ name_to_path = (<<"b">> :> B_MD)
    /\ \A ord \in Orders(DOMAIN outgoing) :
         LET g == get_graph_data(outgoing, name_to_path, ord)
         IN  /\ Len(g.edges) = 4
             /\ [id |-> <<"b">>, label |-> <<"b">>, path |-> B_MD,
                 backlink_count |-> 3] \in BagToSet(g.nodes)
             /\ [id |-> B_MD, label |-> B_MD, path |-> B_MD \o MD,
                 backlink_count |-> 1] \in BagToSet(g.nodes)

\* the maps m1 and m2 agree on the key k
SameEntry(m1, m2, k) ==
    /\ k \in DOMAIN m1 <=> k \in DOMAIN m2
    /\ k \in DOMAIN m1 => m1[k] = m2[k]

\* C11: a full index never aborts because of one bad file: open_vault of an
\* existing directory returns Ok; a file whose read fails is skipped, with
\* no graph or search change for it; a failed search upsert is discarded;
\* and every eligible readable file of the walk is registered and has its
\* links stored.
C11_FullIndexNeverAborts ==
    [][ret'.cmd = "open_vault" /\ ret'.path \in Dirs =>
         LET root == ret'.path
             rel(f) == rel_path_of(f, root)
             good == {f \in Walked(root) : eligible(f) /\ readable(f)}
         IN  /\ ret'.ok
             /\ vault_path' = root
             /\ \A f \in good :
                  /\ rel(f) \in DOMAIN outgoing'
                  /\ outgoing'[rel(f)] = extract_wikilinks(files[f].text)
                  /\ \E h \in good :
                       /\ file_stem(rel(h)) = file_stem(rel(f))
                       /\ resolve_link(name_to_path', file_stem(rel(f))) = rel(h)
                  /\ IF rel(f) \in ret'.upsert_failed
                     THEN SameEntry(docs', docs, rel(f))
                     ELSE /\ rel(f) \in DOMAIN docs'
                          /\ docs'[rel(f)].body = files[f].text
             /\ \A f \in Walked(root) \ good :
                  /\ SameEntry(outgoing', outgoing, rel(f))
                  /\ SameEntry(docs', docs, rel(f))
                  /\ (\A h \in good : file_stem(rel(h)) # file_stem(rel(f)))
                       => SameEntry(name_to_path', name_to_path,
                                    file_stem(rel(f)))]_vars

\* an open_vault has met a note it could not read and a note whose upsert
\* failed, and indexed a third note
C11_Witness ==
    /\ ret.cmd = "open_vault" /\ ret.ok
    /\ \E f \in Walked(vault_path) : eligible(f) /\ ~readable(f)
    /\ ret.upsert_failed # {}
    /\ \E p \in ret.parsed \ ret.upsert_failed :
         p \in DOMAIN outgoing /\ p \in DOMAIN docs

\* the file of the note p is missing or is not UTF-8 text
ReadFails(p) ==
    \/ join(vault_path, p) \notin DOMAIN files
    \/ ~files[join(vault_path, p)].utf8

\* C12: reindex_file(p) returns Err when no vault is open, when the file
\* cannot be read, or when the search upsert fails, and Ok otherwise; when
\* no vault is open or the read fails, neither the link graph nor the search
\* index is modified; a failed upsert leaves the committed index as it was.
C12_ReindexSurfacesFailures ==
    [][ret'.cmd = "reindex_file" =>
         LET p == ret'.path
         IN  /\ (vault_path = None \/ ReadFails(p)) =>
                  /\ ~ret'.ok
                  /\ ret'.parsed = {}
                  /\ outgoing' = outgoing
                  /\ name_to_path' = name_to_path
                  /\ docs' = docs
             /\ ret'.upsert_failed # {} => ~ret'.ok /\ docs' = docs
             /\ ret'.ok <=> /\ vault_path # None
                            /\ ~ReadFails(p)
                            /\ ret'.upsert_failed = {}
             /\ ret'.ok => /\ p \in DOMAIN docs'
                           /\ docs'[p].body = files[join(vault_path, p)].text
             /\ vault_path' = vault_path /\ files' = files]_vars

\* a reindex_file of a note indexed earlier has failed on the read, the file
\* now holding bytes that are not UTF-8
C12_Witness ==
    /\ ret.cmd = "reindex_file" /\ ~ret.ok /\ ret.parsed = {}
    /\ vault_path # None
    /\ ret.path \in DOMAIN outgoing /\ ret.path \in DOMAIN docs
    /\ join(vault_path, ret.path) \in DOMAIN files
    /\ ~files[join(vault_path, ret.path)].utf8

\* a component of the vault-relative path rel starts with '.'
Hidden(rel) ==
    \E c \in Range(split(rel, "/")) : c # <<>> /\ c[1] = "."

\* the vault-relative path rel names a note: a markdown extension, no hidden
\* component, so nothing under .git
NoteEligible(rel) ==
    /\ extension(rel) \in {<<"m", "d">>, MARKDOWN}
    /\ ~Hidden(rel)

\* C13: a full index registers a file in the link graph and the search
\* index only if it has the extension md or markdown, is not a hidden entry
\* and is not under .git; every such readable file is indexed under its
\* vault-relative forward-slash path.
C13_OnlyEligibleIndexed ==
    ret.cmd = "open_vault" /\ ret.ok =>
        /\ \A rel \in DOMAIN outgoing \cup DOMAIN docs
                         \cup {name_to_path[n] : n \in DOMAIN name_to_path} :
             /\ join(vault_path, rel) \in DOMAIN files
             /\ files[join(vault_path, rel)].utf8
             /\ NoteEligible(rel)
        /\ \A f \in Walked(vault_path) :
             LET rel == rel_path_of(f, vault_path)
             IN  NoteEligible(rel) /\ files[f].utf8 =>
                   /\ rel \in DOMAIN outgoing
                   /\ \E n \in DOMAIN name_to_path :
                        file_stem(name_to_path[n]) = file_stem(rel)
                   /\ rel \notin ret.upsert_failed => rel \in DOMAIN docs

\* C14: for every input text the tags returned by parse_note contain no
\* duplicates, whether a tag is repeated in the front-matter tags list, in
\* the front-matter and inline, or inline.
C14_TagsNoDuplicates ==
    note.done =>
        \A i, j \in DOMAIN note.tags : i # j => note.tags[i] # note.tags[j]

\* the least element of a non-empty set of numbers
Least(S) == CHOOSE i \in S : \A j \in S : i <= j

\* t without its leading and trailing whitespace
Stripped(t) ==
    LET solid == {j \in 1..Len(t) : t[j] \notin WhiteSpace}
    IN  IF solid = {} THEN <<>>
        ELSE SubSeq(t, Least(solid), CHOOSE i \in solid : \A j \in solid : j <= i)

\* the links of the text from position p on: the first [[ from p, the first
\* ]] after it, the enclosed text before its first |, stripped, when that is
\* not empty; then the links after that ]]
RECURSIVE LinksFrom(_, _)
LinksFrom(t, p) ==
    LET opens == {i \in p..(Len(t) - 1) : t[i] = "[" /\ t[i + 1] = "["}
        o == Least(opens)
        closes == {k \in (o + 2)..(Len(t) - 1) : t[k] = "]" /\ t[k + 1] = "]"}
        c == Least(closes)
        inner == SubSeq(t, o + 2, c - 1)
        bars == {j \in 1..Len(inner) : inner[j] = "|"}
        target == Stripped(IF bars = {} THEN inner
                           ELSE SubSeq(inner, 1, Least(bars) - 1))
    IN  IF opens = {} \/ closes = {} THEN <<>>
        ELSE (IF target = <<>> THEN <<>> ELSE <<target>>) \o LinksFrom(t, c + 2)

Greatest(S) == CHOOSE i \in S : \A j \in S : j <= i

\* t without its leading characters of C, without its trailing ones
StripLeft(t, C) ==
    LET solid == {j \in 1..Len(t) : t[j] \notin C}
    IN  IF solid = {} THEN <<>> ELSE SubSeq(t, Least(solid), Len(t))
StripRight(t, C) ==
    LET solid == {j \in 1..Len(t) : t[j] \notin C}
    IN  IF solid = {} THEN <<>> ELSE SubSeq(t, 1, Greatest(solid))

\* the text after the opening delimiter, when the text starts with it after
\* leading whitespace
Opened(t) ==
    LET s == StripLeft(t, WhiteSpace)
    IN  Len(s) >= 3 /\ SubSeq(s, 1, 3) = DASHES
AfterOpening(t) ==
    LET s == StripLeft(t, WhiteSpace) IN SubSeq(s, 4, Len(s))

\* where in the text after the opening a line begins with the delimiter
ClosingAt(t) ==
    LET a == AfterOpening(t)
    IN  {i \in 1..(Len(a) - 3) : SubSeq(a, i, i + 3) = CLOSING}

\* the key: value assignments of the block, in order: its non-empty, non-#
\* lines with a colon, split at the first colon, both sides stripped
Assignments(t) ==
    LET block == SubSeq(AfterOpening(t), 1, Least(ClosingAt(t)) - 1)
        ls == lines(block)
        stripped == [i \in DOMAIN ls |-> Stripped(ls[i])]
        kept == SelectSeq(stripped, LAMBDA l :
                    l # <<>> /\ l[1] # "#" /\ ":" \in Range(l))
    IN  [i \in DOMAIN kept |->
            LET colon == Least({j \in 1..Len(kept[i]) : kept[i][j] = ":"})
            IN  [key |-> Stripped(SubSeq(kept[i], 1, colon - 1)),
                 value |-> Stripped(SubSeq(kept[i], colon + 1, Len(kept[i])))]]

\* the tags of a tags value: brackets stripped, split at the commas, each
\* element stripped of whitespace and quotes, the empty ones dropped
Elements(value) ==
    LET inner == StripRight(StripLeft(value, {"["}), {"]"})
        parts == split(inner, ",")
        unquote(e) == StripRight(StripLeft(StripRight(StripLeft(
                          Stripped(e), {"\""}), {"\""}), {"'"}), {"'"})
        clean == [i \in DOMAIN parts |-> unquote(parts[i])]
    IN  SelectSeq(clean, LAMBDA e : e # <<>>)

\* the tags declared by the tags assignments, in order
RECURSIVE DeclaredTags(_)
DeclaredTags(as) ==
    IF as = <<>> THEN <<>>
    ELSE (IF as[1].key = TAGS_KEY THEN Elements(as[1].value) ELSE <<>>)
             \o DeclaredTags(Tail(as))

TagChars == Letters \cup Digits \cup {"-", "_", "/"}

\* the tag of a word: the word without its leading # characters and without
\* its trailing characters that are not tag characters
TagOf(word) ==
    LET t == StripLeft(word, {"#"})
        solid == {j \in 1..Len(t) : t[j] \in TagChars}
    IN  IF solid = {} THEN <<>> ELSE SubSeq(t, 1, Greatest(solid))

\* the word is a tag candidate that is not empty once stripped
YieldsTag(word) == word[1] = "#" /\ Len(word) > 1 /\ TagOf(word) # <<>>

\* the tags after the words: each new tag of a candidate appended to tags
RECURSIVE TagsAfter(_, _)
TagsAfter(words, tags) ==
    IF words = <<>> THEN tags
    ELSE TagsAfter(Tail(words),
             IF YieldsTag(Head(words)) /\ TagOf(Head(words)) \notin Range(tags)
             THEN Append(tags, TagOf(Head(words))) ELSE tags)

\* the text after the closing delimiter
AfterClosing(t) ==
    SubSeq(AfterOpening(t), Least(ClosingAt(t)) + 4, Len(AfterOpening(t)))

\* C17: when the text starts with --- but has no closing delimiter line,
\* the frontmatter map is empty, no front-matter tags are produced and the
\* inline tags are those of the entire raw text; when a closing delimiter
\* exists, the inline tags are those of the text after it, so a #word of the
\* front-matter region never becomes a tag.
C17_UnclosedFrontmatter ==
    note.done /\ Opened(input) =>
        IF ClosingAt(input) = {}
        THEN /\ note.frontmatter = [x \in {} |-> <<>>]
             /\ note.tags = TagsAfter(split_whitespace(input), <<>>)
        ELSE /\ note.tags = TagsAfter(split_whitespace(AfterClosing(input)),
                                      DeclaredTags(Assignments(input)))
             /\ \A i \in DOMAIN note.tags :
                  \/ note.tags[i] \in Range(DeclaredTags(Assignments(input)))
                  \/ \E w \in Range(split_whitespace(AfterClosing(input))) :
                       YieldsTag(w) /\ TagOf(w) = note.tags[i]

\* an opening delimiter that is never closed, with a tags line and a #x
\* line after it: x is a tag and nothing is declared
C17_Witness ==
    /\ note.done
    /\ Opened(input) /\ ClosingAt(input) = {}
    /\ TAGS_KEY \o <<":">> \in Range(split_whitespace(input))
    /\ note.tags = << <<"x">> >>
    /\ note.frontmatter = [x \in {} |-> <<>>]

\* C18: a whitespace-delimited token of the body yields a tag iff it starts
\* with # and is longer than one character; the tag is the token without its
\* leading # characters and without its trailing characters that are not
\* alphanumeric, -, _ or /; a token that is # alone or empty once stripped
\* yields nothing, so no returned tag is empty.
C18_InlineTags ==
    note.done =>
        LET closed == Opened(input) /\ ClosingAt(input) # {}
            body == IF closed THEN AfterClosing(input) ELSE input
            words == Range(split_whitespace(body))
            declared == IF closed THEN Range(DeclaredTags(Assignments(input)))
                        ELSE {}
        IN  /\ \A w \in words : YieldsTag(w) => TagOf(w) \in Range(note.tags)
            /\ \A tag \in Range(note.tags) \ declared :
                 \E w \in words : YieldsTag(w) /\ tag = TagOf(w)
            /\ \A tag \in Range(note.tags) :
                 /\ tag # <<>>
                 /\ tag \notin declared =>
                      tag[1] # "#" /\ tag[Len(tag)] \in TagChars

\* a body of the words #b-c! and #!: the first yields b-c, the second nothing
C18_Witness ==
    /\ note.done
    /\ split_whitespace(input) = << <<"#", "b", "-", "c", "!">>, <<"#", "!">> >>
    /\ note.tags = << <<"b", "-", "c">> >>

\* a command of thread t is running
Running(t) == pc[t] # "idle"

\* C19: no set of commands that run concurrently (open_vault, reindex_file,
\* get_backlinks, resolve_wikilink, get_graph_data, get_local_graph and
\* search_notes, each thread starting at most MaxCommands of them) deadlocks
\* on the vault_path mutex, the writer mutex and the two read/write locks of
\* the link graph: whenever a command is running, a statement of a running
\* command can run; and under fair scheduling every started command
\* eventually returns.
C19_NoCommandBlocksForever ==
    /\ []((\E t \in LockThreads : Running(t))
            => \E t \in LockThreads : Running(t) /\ ENABLED Step(t))
    /\ \A t \in LockThreads : Running(t) ~> ~Running(t)

\* a reindex_file that keeps the vault mutex waits for the write lock of
\* name_to_path, whose read lock a graph query holds, after an open_vault
C19_Witness ==
    \E t \in LockThreads :
        /\ vault_lock = t
        /\ pc[t] = "rf_register"
        /\ n2p_readers # {}
        /\ ~ENABLED Step(t)
        /\ \E u \in LockThreads : call[u].op = "open_vault" /\ ~Running(u)

\* the documents of the committed index with the path p
DocsOf(ds, p) == SelectSeq(ds, LAMBDA d : d.path = p)

\* a call of thread t returns
Returns(t) == pc[t] = "commit" /\ pc'[t] = "idle"

\* C20: the search index has replace-by-path semantics. Under any
\* interleaving of successful index_note and remove_note calls, the committed
\* index never holds two documents with one path; when an index_note call
\* returns, the one document of its path carries the title, the body and the
\* joined tags of that call; when a remove_note call returns, no document
\* has its path; and the documents of every other path are what they were,
\* as are all documents while no call returns.
C20_ReplaceByPath ==
    /\ [](\A p \in SearchPaths : Len(DocsOf(committed, p)) <= 1)
    /\ [][\A t \in Threads :
            IF Returns(t)
            THEN /\ DocsOf(committed', call[t].path) =
                       IF call[t].op = "index_note"
                       THEN << document(call[t].path, call[t].title,
                                        call[t].body, call[t].tags) >>
                       ELSE <<>>
                 /\ \A p \in SearchPaths \ {call[t].path} :
                       DocsOf(committed', p) = DocsOf(committed, p)
            ELSE (\A u \in Threads : ~Returns(u)) => committed' = committed]_vars

\* an index_note call is about to commit the replacement of a document that
\* differs from its own, next to a document of another path, while the other
\* thread waits for the writer with a call for the same path
C20_Witness ==
    \E t, u \in Threads :
        /\ pc[t] = "commit"
        /\ call[t].op = "index_note"
        /\ Len(staged) = 2
        /\ Len(committed) = 2
        /\ DocsOf(committed, call[t].path) # <<>>
        /\ DocsOf(committed, call[t].path)[1].body # call[t].body
        /\ pc[u] = "writer_lock"
        /\ call[u].path = call[t].path

\* s ends with the suffix "..."
EndsWithDots(s) ==
    Len(s) >= 3 /\ SubSeq(s, Len(s) - 2, Len(s)) = <<".", ".", ".">>

\* s without its last three characters is a prefix of body
TruncationOf(s, body) ==
    /\ Len(s) - 3 <= Len(body)
    /\ SubSeq(s, 1, Len(s) - 3) = SubSeq(body, 1, Len(s) - 3)

\* C21: every search result's snippet is at most 200 characters long; it is
\* the whole body when the body fits, and otherwise a truncation of the body
\* that ends with "...".
C21_SnippetBounded ==
    ret.cmd = "search_notes" =>
        \A i \in DOMAIN ret.results :
            LET s == ret.results[i].snippet
                body == ret.hits[i].body
            IN  /\ Len(s) <= SNIPPET_BYTES
                /\ IF Len(body) <= SNIPPET_BYTES THEN s = body
                   ELSE EndsWithDots(s) /\ TruncationOf(s, body)

\* C22: the result of get_local_graph(p, depth) is an induced subgraph: for
\* every graph state, path and depth, the source and the target of every
\* returned edge are ids of returned nodes.
C22_LocalGraphInduced ==
    \A p \in Paths : \A ord \in Orders(DOMAIN outgoing) : \A d \in 0..MaxDepth :
        LET g == get_local_graph(outgoing, name_to_path, p, d, ord)
        IN  \A i \in DOMAIN g.edges :
                g.edges[i].source \in NodeIds(g) /\ g.edges[i].target \in NodeIds(g)

\* the links between names: from the name of a note to each of its targets
NameLinks(out) ==
    UNION {{<<file_stem(s), t>> : t \in Range(out[s])} : s \in DOMAIN out}

\* the names at most k links away from center, followed in either direction
RECURSIVE Near(_, _, _)
Near(out, center, k) ==
    IF k = 0 THEN {center}
    ELSE LET N == Near(out, center, k - 1)
         IN  N \cup {e[2] : e \in {f \in NameLinks(out) : f[1] \in N}}
               \cup {e[1] : e \in {f \in NameLinks(out) : f[2] \in N}}

\* no element occurs twice in the sequence s
NoRepeat(s) == \A i, j \in DOMAIN s : i # j => s[i] # s[j]

\* the call of get_local_graph is running or has returned
LocalCall == ret.cmd = "get_local_graph"

\* C23: get_local_graph terminates on every graph state, with cycles,
\* self-links and dangling targets, and for every depth: a call that has
\* started returns. During the traversal no name is expanded twice, every
\* visited name, hence every returned node, lies within depth links of the
\* center, followed in either direction, and the returned value is the one
\* get_local_graph computes.
C23_TraversalTerminates ==
    /\ [](LocalCall =>
            /\ NoRepeat(ret.st.expanded)
            /\ ret.st.visited \subseteq
                   Near(outgoing, file_stem(ret.path), ret.depth)
            /\ ret.done =>
                   /\ NodeIds(ret) = ret.st.visited
                   /\ [nodes |-> ret.nodes, edges |-> ret.edges] =
                          get_local_graph(outgoing, name_to_path, ret.path,
                                          ret.depth, ret.ord))
    /\ LocalCall ~> (LocalCall /\ ret.done)

\* a call has returned from a graph in which a and b link to each other, a
\* links to itself and to the dangling q, and names were met again after
\* they had been expanded
C23_Witness ==
    /\ LocalCall /\ ret.done
    /\ ret.depth = MaxDepth
    /\ outgoing[A_MD] = << <<"b">>, <<"q">> >>
    /\ outgoing[B_MD] = << <<"a">> >>
    /\ outgoing[X_A_MD] = << <<"a">> >>
    /\ ret.st.visited = {<<"a">>, <<"b">>, <<"q">>}
    /\ Len(ret.st.expanded) = 3
    /\ Len(ret.st.edges) > Len(ret.edges)

\* what get_backlinks, resolve_link and get_graph_data return on the graph
\* <<out, n2p>>, for every note, name and iteration order
QueryResults(out, n2p) ==
    [backlinks |-> [p \in NoteFiles |->
                       {get_backlinks(out, p, ord) : ord \in Orders(DOMAIN out)}],
     resolved |-> [p \in NoteFiles |-> resolve_link(n2p, file_stem(p))],
     graph |-> {get_graph_data(out, n2p, ord) : ord \in Orders(DOMAIN out)}]

\* C24: the link graph is never cleaned up. Across open_vault, reindex_file,
\* delete_file, rename_file, write_file and create_note no key leaves outgoing
\* or name_to_path; delete_file, rename_file, write_file and create_note leave
\* what get_backlinks, resolve_link and get_graph_data return as it was; and
\* opening a vault keeps every entry of outgoing whose path, and every entry
\* of name_to_path whose name, the vault opened does not hold.
C24_GraphNeverCleaned ==
    [][/\ DOMAIN outgoing \subseteq DOMAIN outgoing'
       /\ DOMAIN name_to_path \subseteq DOMAIN name_to_path'
       /\ ret'.cmd \in {"delete_file", "rename_file", "write_file", "create_note"}
             => QueryResults(outgoing', name_to_path')
                    = QueryResults(outgoing, name_to_path)
       /\ ret'.cmd = "open_vault" =>
             /\ \A p \in DOMAIN outgoing \ ret'.parsed :
                    outgoing'[p] = outgoing[p]
             /\ \A n \in DOMAIN name_to_path \ {file_stem(p) : p \in ret'.parsed} :
                    name_to_path'[n] = name_to_path[n]]_vars

\* both vaults have been opened, a.md of the first was renamed and what it
\* was renamed to deleted, and both notes still have their links and names
C24_Witness ==
    /\ ret = file_result("delete_file", B_MD, TRUE)
    /\ vault_path = ROOT
    /\ Walked(ROOT) = {}
    /\ outgoing = (A_MD :> << <<"b">> >>) @@ (B_MD :> << <<"a">>, <<"b">> >>)
    /\ DOMAIN name_to_path = {<<"a">>, <<"b">>}
    /\ get_backlinks(outgoing, B_MD, <<A_MD, B_MD>>) = <<A_MD, B_MD>>

\* the edge a comes before the edge b in the order of (source, target)
EdgeBefore(a, b) ==
    \/ StrLess(a.source, b.source)
    \/ a.source = b.source /\ StrLess(a.target, b.target)

\* C25: the edge list of get_local_graph holds no two edges with the same
\* (source, target) pair and is sorted in ascending lexicographic order of
\* (source, target): each edge comes strictly before the next. Hence the
\* sequence is determined by the edges gathered: two calls on one graph state
\* that gather the same edges return the same sequence.
C25_LocalEdgesSortedUnique ==
    \A p \in Paths : \A d \in 0..MaxDepth :
        \A ord1 \in Orders(DOMAIN outgoing) :
            LET e1 == get_local_graph(outgoing, name_to_path, p, d, ord1).edges
            IN  /\ \A i \in 1..(Len(e1) - 1) : EdgeBefore(e1[i], e1[i + 1])
                /\ \A i, j \in DOMAIN e1 : i # j => e1[i] # e1[j]
                /\ \A ord2 \in Orders(DOMAIN outgoing) :
                     LET e2 == get_local_graph(outgoing, name_to_path, p, d,
                                               ord2).edges
                     IN  Range(e1) = Range(e2) => e1 = e2

\* b.md is linked twice from a.md and once from x/a.md, both of which have
\* the name a, and links to itself: the traversal gathers (a, b) three times
\* and (b, b) twice, in an order that is not sorted
C25_Witness ==
    /\ last.op = "update_links"
    /\ outgoing = (A_MD :> << <<"b">>, <<"b">> >>) @@ (X_A_MD :> << <<"b">> >>)
                      @@ (B_MD :> << <<"b">> >>)
    /\ resolve_link(name_to_path, <<"b">>) = B_MD
    /\ local_loop(outgoing, name_to_path, 1, <<B_MD, A_MD, X_A_MD>>, {},
                  <<<<(<<"b">>), 0>>>>, <<>>).edges
         = <<[source |-> <<"b">>, target |-> <<"b">>],
             [source |-> <<"b">>, target |-> <<"b">>],
             [source |-> <<"a">>, target |-> <<"b">>],
             [source |-> <<"a">>, target |-> <<"b">>]>>
    /\ get_local_graph(outgoing, name_to_path, B_MD, 1, <<B_MD, A_MD, X_A_MD>>).edges
         = <<[source |-> <<"a">>, target |-> <<"b">>],
             [source |-> <<"b">>, target |-> <<"b">>]>>

\* C26: after any sequence of register_note, update_links and remove_note,
\* every entry of name_to_path maps a name to a path with that stem, and
\* get_all_note_names returns each registered name, the keys of name_to_path,
\* exactly once, whatever the order the map is iterated in.
C26_NameMapInvariant ==
    /\ \A n \in DOMAIN name_to_path : file_stem(name_to_path[n]) = n
    /\ \A ord \in Orders(DOMAIN name_to_path) :
         LET names == get_all_note_names(name_to_path, ord)
         IN  /\ Range(names) = DOMAIN name_to_path
             /\ Len(names) = Cardinality(DOMAIN name_to_path)

\* a.md and x/a.md hold links and the one name a stands for x/a.md; the
\* last call removed b.md
C26_Witness ==
    /\ last = [op |-> "remove_note", path |-> B_MD, targets |-> <<>>]
    /\ DOMAIN outgoing = {A_MD, X_A_MD}
    /\ name_to_path = (<<"a">> :> X_A_MD)
    /\ get_all_note_names(name_to_path, << <<"a">> >>) = << <<"a">> >>

\* C27: in the result of get_local_graph(p, depth), for every graph state
\* and depth, the backlink_count of each node is the number of edges of the
\* returned edge list whose target is that node.
C27_LocalBacklinkCount ==
    \A p \in Paths : \A d \in 0..MaxDepth : \A ord \in Orders(DOMAIN outgoing) :
        LET g == get_local_graph(outgoing, name_to_path, p, d, ord)
        IN  \A n \in BagToSet(g.nodes) :
                n.backlink_count = count_target(g.edges, n.id)

\* C28: get_backlinks and the local graph agree on incoming links: for every
\* graph state and path p, the sources of the edges of get_local_graph(p, 1)
\* with target stem(p) are the names of the notes get_backlinks(p) returns,
\* also when a note's target list holds the literal path p.
C28_BacklinksAgree ==
    \A p \in Paths : \A ord \in Orders(DOMAIN outgoing) :
        LET g == get_local_graph(outgoing, name_to_path, p, 1, ord)
            incoming == {g.edges[i].source :
                            i \in {j \in DOMAIN g.edges :
                                      g.edges[j].target = file_stem(p)}}
        IN  incoming = {file_stem(s) : s \in Range(get_backlinks(outgoing, p, ord))}

\* C29: a note p that is registered and whose links were stored by
\* update_links(p, T) keeps its outgoing edges in get_local_graph(p, d) for
\* d >= 1 when another note with the same name and a different path is
\* registered afterwards: the edges with source stem(p) are (stem(p), t) for
\* exactly the t of T.
C29_SameNameKeepsEdges ==
    [][\A p \in Paths :
          (/\ last'.op = "register_note"
           /\ last'.path # p
           /\ file_stem(last'.path) = file_stem(p)
           /\ p \in DOMAIN outgoing
           /\ file_stem(p) \in DOMAIN name_to_path
           /\ name_to_path[file_stem(p)] = p)
          => \A d \in 1..MaxDepth : \A ord \in Orders(DOMAIN outgoing') :
                LET g == get_local_graph(outgoing', name_to_path', p, d, ord)
                IN  {g.edges[i].target :
                        i \in {j \in DOMAIN g.edges :
                                  g.edges[j].source = file_stem(p)}}
                    = Range(outgoing'[p])]_vars

\* the thread t ran the command op and returned Ok
Completed(t, op) == call[t].op = op /\ pc[t] = "ok"

\* C30: when reindex_file(p) runs concurrently with the full index of
\* open_vault, and the content of p changed between the two reads, then
\* after both have completed (and no other command is running) outgoing[p]
\* holds the links parsed from the content that was read last: the older
\* parse does not overwrite the newer one.
C30_NoStaleOverwrite ==
    \A t, u \in LockThreads :
        (/\ Completed(t, "open_vault")
         /\ Completed(u, "reindex_file")
         /\ call[t].content # call[u].content
         /\ \A w \in LockThreads : pc[w] \in {"idle", "ok", "err"})
        => /\ A_MD \in DOMAIN outgoing
           /\ outgoing[A_MD] = last.targets

====
